---- MODULE Spec2Model ----
(***************************************************************************)
(* Mantic.sh: the structural scorer (src/src/brain-scorer.ts), the shard   *)
(* worker (src/src/search.worker.ts) and the parallel orchestrator         *)
(* (src/src/parallel-mantic.ts).                                           *)
(*                                                                         *)
(* A JavaScript string is modelled as a sequence of one-character strings, *)
(* so that case folding, splitting and the regular expressions of the      *)
(* source are computed character by character.                             *)
(***************************************************************************)
EXTENDS Integers, Sequences, FiniteSets, TLC

(***************************************************************************)
(* Characters and the String.prototype helpers the source uses             *)
(***************************************************************************)
Lowers == <<"a","b","c","d","e","f","g","h","i","j","k","l","m",
            "n","o","p","q","r","s","t","u","v","w","x","y","z">>

Uppers == <<"A","B","C","D","E","F","G","H","I","J","K","L","M",
            "N","O","P","Q","R","S","T","U","V","W","X","Y","Z">>

LowerSet == {Lowers[i] : i \in 1..Len(Lowers)}

UpperSet == {Uppers[i] : i \in 1..Len(Uppers)}

DigitSet == {"0","1","2","3","4","5","6","7","8","9"}

\* \s of the regular expressions (space and tab stand for the white space class)
WhiteSpace == {" ", "\t"}

\* [-_\s] of normalizeSeparators
SeparatorSet == {"-", "_"} \cup WhiteSpace

\* [\s_\-\.] of the file name word split
WordSplitSet == {"_", "-", "."} \cup WhiteSpace

\* [/\\] of buildIndex
PathSepSet == {"/", "\\"}

\* \w, as used by \b
WordCharSet == LowerSet \cup UpperSet \cup DigitSet \cup {"_"}

CaseMap == [c \in UpperSet |-> Lowers[CHOOSE i \in 1..Len(Uppers) : Uppers[i] = c]]

toLowerCase(s) == [i \in 1..Len(s) |-> IF s[i] \in UpperSet THEN CaseMap[s[i]] ELSE s[i]]

includes(s, t) == \E i \in 0..(Len(s) - Len(t)) : SubSeq(s, i + 1, i + Len(t)) = t

startsWith(s, t) == Len(t) <= Len(s) /\ SubSeq(s, 1, Len(t)) = t

\* String.prototype.trim
trim(s) ==
    LET keep == {i \in 1..Len(s) : s[i] \notin WhiteSpace}
        Min(S) == CHOOSE x \in S : \A y \in S : x <= y
        Max(S) == CHOOSE x \in S : \A y \in S : x >= y
    IN  IF keep = {} THEN <<>> ELSE SubSeq(s, Min(keep), Max(keep))

\* s.replace(/\s/g, '')
removeWhiteSpace(s) ==
    LET NotWs(c) == c \notin WhiteSpace
    IN  SelectSeq(s, NotWs)

\* s.split(/[D]/): one component between every two delimiter characters
RECURSIVE splitChars(_, _)
splitChars(s, D) ==
    LET hits == {i \in 1..Len(s) : s[i] \in D}
    IN  IF hits = {} THEN <<s>>
        ELSE LET i == CHOOSE x \in hits : \A y \in hits : x <= y
             IN  <<SubSeq(s, 1, i - 1)>> \o splitChars(SubSeq(s, i + 1, Len(s)), D)

\* s.split(/[D]+/): a run of delimiters separates once; a leading or a
\* trailing run leaves an empty first or last component, as in JavaScript
splitRuns(s, D) ==
    LET raw == splitChars(s, D)
        keep == {i \in 1..Len(raw) : raw[i] # <<>> \/ i = 1 \/ i = Len(raw)}
        RECURSIVE pick(_)
        pick(i) == IF i > Len(raw) THEN <<>>
                   ELSE (IF i \in keep THEN <<raw[i]>> ELSE <<>>) \o pick(i + 1)
    IN  pick(1)

\* s.replace(/\.[^.]+$/, ''): drops the last dot and what follows it, when
\* something follows it
stripLastExt(s) ==
    LET dots == {i \in 1..Len(s) : s[i] = "."}
    IN  IF dots = {} THEN s
        ELSE LET last == CHOOSE x \in dots : \A y \in dots : x >= y
             IN  IF last < Len(s) THEN SubSeq(s, 1, last - 1) ELSE s

\* fileName.includes('.') ? '.' + fileName.split('.').pop() : ''
extOf(fileName) ==
    LET cs == splitChars(fileName, {"."})
    IN  IF includes(fileName, <<".">>) THEN <<".">> \o cs[Len(cs)] ELSE <<>>

(***************************************************************************)
(* ManticEngine.normalizeSeparators                                        *)
(***************************************************************************)
\* text.replace(/([a-z])([A-Z])/g, '$1 $2')
RECURSIVE camelSpaces(_)
camelSpaces(s) ==
    IF Len(s) < 2 THEN s
    ELSE IF s[1] \in LowerSet /\ s[2] \in UpperSet
         THEN <<s[1], " ", s[2]>> \o camelSpaces(SubSeq(s, 3, Len(s)))
         ELSE <<s[1]>> \o camelSpaces(SubSeq(s, 2, Len(s)))

\* text.replace(/[-_\s]+/g, ' ')
RECURSIVE collapseSeparators(_)
collapseSeparators(s) ==
    IF s = <<>> THEN <<>>
    ELSE IF s[1] \in SeparatorSet
         THEN LET rest == {i \in 1..Len(s) : s[i] \notin SeparatorSet}
              IN  IF rest = {} THEN <<" ">>
                  ELSE <<" ">> \o collapseSeparators(
                         SubSeq(s, CHOOSE x \in rest : \A y \in rest : x <= y, Len(s)))
         ELSE <<s[1]>> \o collapseSeparators(SubSeq(s, 2, Len(s)))

normalizeSeparators(text) == collapseSeparators(camelSpaces(text))

(***************************************************************************)
(* EXTENSION_WEIGHTS and the pattern tables                                *)
(***************************************************************************)
\* The keys of EXTENSION_WEIGHTS in insertion order, with their weights
ExtensionKeys ==
    << <<".","t","s">>, <<".","t","s","x">>, <<".","j","s">>, <<".","j","s","x">>,
       <<".","r","s">>, <<".","g","o">>, <<".","p","y">>,
       <<".","p","r","i","s","m","a">>, <<".","g","r","a","p","h","q","l">>,
       <<".","c","s","s">>, <<".","j","s","o","n">>, <<".","m","d">> >>

ExtensionValues == <<20, 20, 15, 15, 20, 20, 15, 15, 10, 5, 5, 2>>

\* EXTENSION_WEIGHTS[ext] || 0
extensionWeight(ext) ==
    IF \E i \in 1..Len(ExtensionKeys) : ExtensionKeys[i] = ext
    THEN ExtensionValues[CHOOSE i \in 1..Len(ExtensionKeys) : ExtensionKeys[i] = ext]
    ELSE 0

\* Object.keys(EXTENSION_WEIGHTS).map(ext => ext.slice(1))
\*     .sort((a, b) => b.length - a.length): the alternatives of extensionRegex,
\* longest first, equal lengths in insertion order
extensionAlternatives ==
    LET names == [i \in 1..Len(ExtensionKeys) |-> SubSeq(ExtensionKeys[i], 2, Len(ExtensionKeys[i]))]
        RECURSIVE byLen(_)
        byLen(n) == IF n = 0 THEN <<>>
                    ELSE LET OfLen(x) == Len(x) = n
                         IN  SelectSeq(names, OfLen) \o byLen(n - 1)
    IN  byLen(8)

\* originalQuery.match(this.extensionRegex): the leftmost '.', followed by an
\* alternative (case-insensitively) and a word boundary; <<>> when there is
\* no match, else '.' + queryExtMatch[1].toLowerCase()
requestedExtension(q) ==
    LET MatchAt(i, alt) ==
            /\ q[i] = "."
            /\ i + Len(alt) <= Len(q)
            /\ toLowerCase(SubSeq(q, i + 1, i + Len(alt))) = alt
            /\ (i + Len(alt) = Len(q) \/ q[i + Len(alt) + 1] \notin WordCharSet)
        alts == extensionAlternatives
        at == {i \in 1..Len(q) : \E j \in 1..Len(alts) : MatchAt(i, alts[j])}
    IN  IF at = {} THEN <<>>
        ELSE LET i == CHOOSE x \in at : \A y \in at : x <= y
                 js == {j \in 1..Len(alts) : MatchAt(i, alts[j])}
                 j == CHOOSE x \in js : \A y \in js : x <= y
             IN  <<".">> \o alts[j]

\* the patterns are tested case-insensitively against the original path
DEFINITION_PATTERNS(original) ==
    LET p == toLowerCase(original)
    IN  \/ includes(p, <<".","m","o","d","e","l",".">>)
        \/ includes(p, <<".","s","c","h","e","m","a",".">>)
        \/ includes(p, <<".","e","n","t","i","t","y",".">>)
        \/ includes(p, <<".","t","y","p","e",".">>)
        \/ includes(p, <<".","i","n","t","e","r","f","a","c","e",".">>)
        \/ includes(p, <<"/","m","o","d","e","l","s","/">>)
        \/ includes(p, <<"/","s","c","h","e","m","a","s","/">>)
        \/ includes(p, <<"/","e","n","t","i","t","i","e","s","/">>)

IMPLEMENTATION_PATTERNS(original) ==
    LET p == toLowerCase(original)
    IN  \/ includes(p, <<".","s","e","r","v","i","c","e",".">>)
        \/ includes(p, <<".","c","o","n","t","r","o","l","l","e","r",".">>)
        \/ includes(p, <<".","h","a","n","d","l","e","r",".">>)
        \/ includes(p, <<".","m","a","n","a","g","e","r",".">>)
        \/ includes(p, <<"/","s","e","r","v","i","c","e","s","/">>)
        \/ includes(p, <<"/","c","o","n","t","r","o","l","l","e","r","s","/">>)

TEST_PATTERNS(original) ==
    LET p == toLowerCase(original)
    IN  \/ includes(p, <<".","t","e","s","t",".">>)
        \/ includes(p, <<".","s","p","e","c",".">>)
        \/ includes(p, <<".","e","2","e",".">>)
        \/ includes(p, <<"/","t","e","s","t","/">>)
        \/ includes(p, <<"/","t","e","s","t","s","/">>)
        \/ includes(p, <<"_","_","t","e","s","t","s","_","_">>)

(***************************************************************************)
(* ManticEngine.buildIndex                                                 *)
(***************************************************************************)
FileEntry(p) ==
    LET parts == splitChars(p, PathSepSet)
        fileName == parts[Len(parts)]
        parentDir == IF Len(parts) > 1 THEN parts[Len(parts) - 1] ELSE <<>>
        lower == toLowerCase(p)
    IN  [ original |-> p,
          lower |-> lower,
          normalized |-> normalizeSeparators(lower),
          fileName |-> fileName,
          fileNameLower |-> toLowerCase(fileName),
          fileNameNormalized |-> normalizeSeparators(toLowerCase(fileName)),
          parentDirLower |-> toLowerCase(parentDir),
          parentDirNormalized |-> normalizeSeparators(toLowerCase(parentDir)),
          pathParts |-> [i \in 1..Len(parts) |-> toLowerCase(parts[i])],
          ext |-> extOf(fileName),
          depth |-> Len(parts) ]

buildIndex(filePaths) == [i \in 1..Len(filePaths) |-> FileEntry(filePaths[i])]

(***************************************************************************)
(* ManticEngine.scoreEntry                                                 *)
(***************************************************************************)
\* the directory boost with a digit dropped from 8000
directoryBoostSmall(entry, terms, originalQuery) ==
    LET isSingleTermQuery == /\ ~includes(originalQuery, <<" ">>)
                             /\ originalQuery = toLowerCase(originalQuery)
    IN  IF /\ Len(terms) = 1
           /\ isSingleTermQuery
           /\ Len(terms[1]) <= 4
           /\ \E i \in 1..Len(entry.pathParts) : entry.pathParts[i] = terms[1]
        THEN 800 ELSE 0

\* A0: the single-term directory boost
directoryBoost(entry, terms, originalQuery) ==
    LET isSingleTermQuery == /\ ~includes(originalQuery, <<" ">>)
                             /\ originalQuery = toLowerCase(originalQuery)
    IN  IF /\ Len(terms) = 1
           /\ isSingleTermQuery
           /\ Len(terms[1]) <= 4
           /\ \E i \in 1..Len(entry.pathParts) : entry.pathParts[i] = terms[1]
        THEN 8000 ELSE 0

\* D: soft AND, with the base score adjustment
intersectionScore(entry, terms) ==
    LET matched == {i \in 1..Len(terms) : includes(entry.normalized, terms[i])}
    IN  10 * Cardinality(matched) - 50 * (Len(terms) - Cardinality(matched)) + 50

\* The inner loop of path sequence matching: the component chosen for `term`
\* among those after lastMatchIndex (components are numbered from 1 and 0
\* stands for the source's -1)
RECURSIVE findPathMatch(_, _, _, _, _)
findPathMatch(pathParts, term, idx, lastMatchIndex, matchIndex) ==
    IF idx > Len(pathParts) THEN [matchIndex |-> matchIndex, isExactMatch |-> FALSE]
    ELSE IF idx <= lastMatchIndex
         THEN findPathMatch(pathParts, term, idx + 1, lastMatchIndex, matchIndex)
    ELSE LET part == pathParts[idx]
         IN  IF part = term THEN [matchIndex |-> idx, isExactMatch |-> TRUE]
             ELSE IF /\ matchIndex = 0
                     /\ \/ startsWith(part, term \o <<"_">>)
                        \/ startsWith(part, term \o <<"-">>)
                        \/ startsWith(part, term \o <<".">>)
                  THEN findPathMatch(pathParts, term, idx + 1, lastMatchIndex, idx)
             ELSE IF matchIndex = 0 /\ Len(term) >= 4 /\ includes(part, term)
                  THEN findPathMatch(pathParts, term, idx + 1, lastMatchIndex, idx)
             ELSE findPathMatch(pathParts, term, idx + 1, lastMatchIndex, matchIndex)

\* The outer loop: [pathScore, consecutiveMatches] after the terms from t on
RECURSIVE pathSequence(_, _, _, _, _, _)
pathSequence(pathParts, terms, t, lastMatchIndex, consecutiveMatches, pathScore) ==
    IF t > Len(terms)
    THEN [pathScore |-> pathScore, consecutiveMatches |-> consecutiveMatches]
    ELSE LET m == findPathMatch(pathParts, terms[t], 1, lastMatchIndex, 0)
         IN  IF m.matchIndex > lastMatchIndex
             THEN LET c == consecutiveMatches + 1
                      bonus == 25 * c + (IF m.isExactMatch THEN 10 ELSE 0)
                  IN  pathSequence(pathParts, terms, t + 1, m.matchIndex, c, pathScore + bonus)
             ELSE pathSequence(pathParts, terms, t + 1, lastMatchIndex, 0, pathScore)

\* The gapless check of the perfect sequential path bonus
RECURSIVE allConsecutive(_, _, _, _)
allConsecutive(pathParts, terms, i, startIdx) ==
    IF i > Len(terms) THEN TRUE
    ELSE LET hits == {p \in 1..Len(pathParts) : p > startIdx /\ pathParts[p] = terms[i]}
         IN  IF hits = {} THEN FALSE
             ELSE LET idx == CHOOSE x \in hits : \A y \in hits : x <= y
                  IN  IF startIdx # 0 /\ idx # startIdx + 1 THEN FALSE
                      ELSE allConsecutive(pathParts, terms, i + 1, idx)

pathSequenceScore(entry, terms, originalQuery) ==
    IF includes(originalQuery, <<"/">>) \/ Len(terms) >= 3
    THEN LET r == pathSequence(entry.pathParts, terms, 1, 0, 0, 0)
         IN  r.pathScore
             + (IF /\ r.consecutiveMatches = Len(terms)
                   /\ Len(terms) >= 3
                   /\ allConsecutive(entry.pathParts, terms, 1, 0)
                THEN 100 ELSE 0)
    ELSE 0

\* E: structural specificity, one term
structureOfTerm(entry, term) ==
    LET filenameWords == splitRuns(entry.fileNameNormalized, WordSplitSet)
        filenameHasTerm == \E i \in 1..Len(filenameWords) :
                              filenameWords[i] = term \/ startsWith(filenameWords[i], term)
    IN  IF filenameHasTerm THEN [points |-> 30, inStructure |-> 1]
        ELSE IF entry.parentDirLower = term THEN [points |-> 60, inStructure |-> 1]
        ELSE IF includes(entry.parentDirNormalized, term) THEN [points |-> 30, inStructure |-> 1]
        ELSE [points |-> 5, inStructure |-> 0]

RECURSIVE structureSum(_, _, _)
structureSum(entry, terms, i) ==
    IF i > Len(terms) THEN [points |-> 0, inStructure |-> 0]
    ELSE LET a == structureOfTerm(entry, terms[i])
             b == structureSum(entry, terms, i + 1)
         IN  [points |-> a.points + b.points, inStructure |-> a.inStructure + b.inStructure]

structuralScore(entry, terms) ==
    LET r == structureSum(entry, terms, 1)
    IN  r.points + (IF r.inStructure = Len(terms) THEN 50 ELSE 0)

adjacencyBonus(entry, normalizedQuery) ==
    IF includes(removeWhiteSpace(entry.normalized), removeWhiteSpace(normalizedQuery))
    THEN 20 ELSE 0

\* F: definition, else implementation; the test penalty is independent
classificationScore(original) ==
    (IF DEFINITION_PATTERNS(original) THEN 40
     ELSE IF IMPLEMENTATION_PATTERNS(original) THEN 20 ELSE 0)
    - (IF TEST_PATTERNS(original) THEN 60 ELSE 0)

\* The sum the function reaches when no early return is taken
accumulatedScore(entry, terms, originalQuery, normalizedQuery) ==
    directoryBoost(entry, terms, originalQuery)
    + intersectionScore(entry, terms)
    + pathSequenceScore(entry, terms, originalQuery)
    + structuralScore(entry, terms)
    + adjacencyBonus(entry, normalizedQuery)
    + extensionWeight(entry.ext)
    + classificationScore(entry.original)

\* Math.max
max(a, b) == IF a >= b THEN a ELSE b

scoreEntry(entry, terms, fullQueryLower, originalQuery) ==
    LET normalizedQuery == toLowerCase(normalizeSeparators(originalQuery))
        fileNameWithoutExt == toLowerCase(stripLastExt(entry.fileName))
        queryWithoutExt == stripLastExt(fullQueryLower)
        requestedExt == requestedExtension(originalQuery)
        total == accumulatedScore(entry, terms, originalQuery, normalizedQuery)
    IN  IF entry.fileNameLower = fullQueryLower THEN 10000
        ELSE IF entry.fileNameNormalized = normalizedQuery THEN 9000
        ELSE IF fileNameWithoutExt = queryWithoutExt THEN 5000
        ELSE IF requestedExt # <<>> /\ entry.ext # requestedExt THEN 0
        ELSE max(0, total)

(***************************************************************************)
(* ManticEngine.search                                                     *)
(***************************************************************************)
\* the comparator without its secondary key
compareResultsScoreOnly(a, b) == b.score - a.score

\* The comparator shared by ManticEngine.search and ParallelMantic.search:
\* a negative value puts a before b
compareResults(a, b) ==
    IF b.score # a.score THEN b.score - a.score
    ELSE Len(a.file) - Len(b.file)

\* Array.prototype.sort with that comparator; the sort is stable (ES2019), so
\* results the comparator calls equal keep their order
RECURSIVE sortResults(_)
sortResults(rs) ==
    IF rs = <<>> THEN <<>>
    ELSE LET sorted == sortResults(SubSeq(rs, 1, Len(rs) - 1))
             r == rs[Len(rs)]
             before == {i \in 1..Len(sorted) : compareResults(r, sorted[i]) < 0}
             at == IF before = {} THEN Len(sorted) + 1
                   ELSE CHOOSE x \in before : \A y \in before : x <= y
         IN  SubSeq(sorted, 1, at - 1) \o <<r>> \o SubSeq(sorted, at, Len(sorted))

\* Array.prototype.slice(0, limit); a negative limit counts from the end
sliceTo(rs, limit) ==
    IF limit >= 0 THEN SubSeq(rs, 1, IF limit < Len(rs) THEN limit ELSE Len(rs))
    ELSE SubSeq(rs, 1, Len(rs) + limit)

queryTrimmedOf(query) == trim(query)

queryLowerOf(query) == toLowerCase(normalizeSeparators(trim(query)))

termsOf(query) ==
    LET NonEmpty(t) == t # <<>>
    IN  SelectSeq(splitRuns(queryLowerOf(query), WhiteSpace), NonEmpty)

\* scoreEntry with the arguments search passes for `query`
scoreFor(entry, query) ==
    scoreEntry(entry, termsOf(query), queryLowerOf(query), queryTrimmedOf(query))

\* the SearchResult pushed for an entry and its score
resultOf(entry, score) ==
    [file |-> entry.original, score |-> score,
     matchType |-> IF score > 150 THEN "exact" ELSE "fuzzy"]

\* the loop of search: the records with a positive score, in index order
scoredResults(idx, query) ==
    LET Positive(r) == r.score > 0
    IN  SelectSeq([i \in 1..Len(idx) |-> resultOf(idx[i], scoreFor(idx[i], query))],
                  Positive)

\* search without its two early returns
searchUnguarded(idx, query, limit) ==
    sliceTo(sortResults(scoredResults(idx, query)), limit)

search(idx, query, limit) ==
    IF query = <<>> THEN <<>>
    ELSE IF termsOf(query) = <<>> THEN <<>>
    ELSE sliceTo(sortResults(scoredResults(idx, query)), limit)

(***************************************************************************)
(* State                                                                   *)
(***************************************************************************)
VARIABLES
    index,        \* ManticEngine.index of the engine under direct use
    engineCall,   \* the last search on it: query, limit and the list returned
    given,        \* a string handed to normalizeSeparators
    text,         \* what normalizeSeparators returned for it, and for its own output
    passes,       \* how many times normalizeSeparators has been applied
    allFiles,     \* the file list given to new ParallelMantic(allFiles)
    cpuCount,     \* os.cpus().length
    workers,      \* ParallelMantic.workers: the Worker objects it holds
    active,       \* ParallelMantic.active
    terminated,   \* history: terminate() has run
    threads,      \* every Worker spawned: its chunk, its inbox and its replies in flight
    calls,        \* the search calls issued on the orchestrator
    shards,       \* a partition of allFiles into contiguous shards
    shardCall,    \* one query answered over the shards and over the whole list
    resolveCall,  \* one call of resolveImportPath: its arguments and what it returned
    build,        \* one call of buildDependencyGraph: its arguments, the reads in
                  \* flight, and the nodes and reverseLookup built so far
    rankCall,     \* one call of calculateImportRanks: the graph given and the ranks
    impactCall,   \* one call of ContextIntel.calculateImpact: the files and the summary
    scorer,       \* the fields of one SemanticScorer: pipeline, isInitializing, initPromise
    inits,        \* every invocation of _initModel, with the promise ensureModel made of it
    ensureCalls   \* the calls of ensureModel: the promise each follows and how it ended

vars == <<index, engineCall, given, text, passes, allFiles, cpuCount, workers, active,
          terminated, threads, calls, shards, shardCall, resolveCall, build, rankCall,
          impactCall, scorer, inits, ensureCalls>>

engineVars == <<index, engineCall>>

normVars == <<given, text, passes>>

parVars == <<allFiles, cpuCount, workers, active, terminated, threads, calls>>

shardVars == <<shards, shardCall>>

graphVars == <<resolveCall, build, rankCall>>

intelVars == <<impactCall>>

semanticVars == <<scorer, inits, ensureCalls>>

NoEngineCall == [made |-> FALSE, query |-> <<>>, limit |-> 0, results |-> <<>>]

NoShardCall ==
    [stage |-> "idle", query |-> <<>>, limit |-> 0, replies |-> <<>>,
     merged |-> <<>>, single |-> <<>>]

EngineIdle == index = <<>> /\ engineCall = NoEngineCall

NormIdle == given = <<>> /\ text = <<>> /\ passes = 0

ParIdle ==
    /\ allFiles = <<>> /\ cpuCount = 0 /\ workers = <<>> /\ active = FALSE
    /\ terminated = FALSE /\ threads = <<>> /\ calls = <<>>

ShardIdle == shards = <<>> /\ shardCall = NoShardCall

NoResolveCall ==
    [made |-> FALSE, importSource |-> <<>>, importerPath |-> <<>>,
     allFiles |-> <<>>, result |-> <<>>]

NoBuild == [pc |-> "idle"]

NoRankCall == [made |-> FALSE, reverseLookup |-> <<>>, ranks |-> <<>>]

GraphIdle == resolveCall = NoResolveCall /\ build = NoBuild /\ rankCall = NoRankCall

NoImpactCall == [made |-> FALSE]

IntelIdle == impactCall = NoImpactCall

\* new SemanticScorer(): pipeline = null, isInitializing = false, initPromise = null
NewScorer == [pipeline |-> FALSE, isInitializing |-> FALSE, initPromise |-> 0]

SemanticIdle == scorer = NewScorer /\ inits = <<>> /\ ensureCalls = <<>>

(***************************************************************************)
(* Inputs                                                                  *)
(***************************************************************************)
MaxFiles == 3

MaxLimit == 2

MaxTextLen == 4

\* The paths the engine is indexed over
PathPool ==
    << <<"s","/","d","_","m",".","c","c">>,
       <<"a","/","b","/","c",".","t","s">>,
       <<"g","p","u","/","m",".","t","s">>,
       <<"x","/","g","p","u",".","t","s">>,
       <<"f",".","t","s">>,
       <<"y","/","g","p","u">>,
       <<"a",".","m","d","/","x",".","t","s">>,
       <<"z","/","g","p","u","s",".","j","s">>,
       <<"a","/","b","/","e",".","t","s">> >>

QueryPool ==
    { <<>>, <<" ">>,
      <<"d","_","m",".","c","c">>,
      <<"f",".","p","y">>,
      <<"g","p","u">>,
      <<"G","p","u">>,
      <<"a",".","m","d">>,
      <<"a"," ","b">>,
      <<"c">>,
      <<" ","e",".","t","s">> }

\* Terms appended to a query
TermPool == { <<"a">>, <<"b">>, <<"z","z","z">>, <<"g","p","u">> }

\* The lists of up to n distinct members of `pool`, in pool order or in the
\* reverse of it
RECURSIVE listsFrom(_, _, _)
listsFrom(pool, from, n) ==
    IF n = 0 \/ from > Len(pool) THEN {<<>>}
    ELSE listsFrom(pool, from + 1, n)
         \cup {<<pool[from]>> \o l : l \in listsFrom(pool, from + 1, n - 1)}

reverse(l) == [i \in 1..Len(l) |-> l[Len(l) + 1 - i]]

FileLists(pool, n) ==
    LET up == listsFrom(pool, 1, n)
    IN  up \cup {reverse(l) : l \in up}

EngineFileLists == FileLists(PathPool, MaxFiles)

Limits == 0..MaxLimit

(***************************************************************************)
(* The engine used directly: buildIndex, then searches                     *)
(***************************************************************************)
\* new ManticEngine(): the index is empty until buildIndex runs
InitEngine ==
    /\ index = <<>>
    /\ engineCall = NoEngineCall
    /\ NormIdle /\ ParIdle /\ ShardIdle /\ GraphIdle /\ IntelIdle /\ SemanticIdle

\* buildIndex(filePaths), called once on a fresh engine as search.worker.ts
\* and the single-threaded path of process-request.ts do
BuildIndex(filePaths) ==
    /\ index = <<>>
    /\ index' = buildIndex(filePaths)
    /\ engineCall' = NoEngineCall
    /\ UNCHANGED <<normVars, parVars, shardVars, graphVars, intelVars, semanticVars>>

\* search is synchronous: a call starts after the previous one has returned
Search(query, limit) ==
    /\ ~engineCall.made
    /\ engineCall' = [made |-> TRUE, query |-> query, limit |-> limit,
                      results |-> search(index, query, limit)]
    /\ UNCHANGED <<index, normVars, parVars, shardVars, graphVars, intelVars, semanticVars>>

\* the caller takes the returned list
Return ==
    /\ engineCall.made
    /\ engineCall' = NoEngineCall
    /\ UNCHANGED <<index, normVars, parVars, shardVars, graphVars, intelVars, semanticVars>>

NextEngine ==
    \/ \E l \in EngineFileLists : BuildIndex(l)
    \/ \E q \in QueryPool, k \in Limits : Search(q, k)
    \/ Return

SpecEngine == InitEngine /\ [][NextEngine]_vars

(***************************************************************************)
(* The engine over files that share a base name                            *)
(***************************************************************************)
BaseNamePathPool ==
    << <<"a","/","r","o","u","t","e","r",".","t","s">>,
       <<"a","/","r","o","u","t","e","r",".","t","e","s","t",".","t","s">>,
       <<"b","/","R","o","u","t","e","r",".","t","s","x">>,
       <<"g","p","u","/","g","p","u",".","t","s">>,
       <<"g","p","u","/","g","p","u",".","t","e","s","t",".","t","s">> >>

BaseNameQueryPool == { <<"r","o","u","t","e","r">>, <<"g","p","u">> }

BaseNameFileLists == FileLists(BaseNamePathPool, MaxFiles)

BaseNameLimits == 1..(MaxLimit + 1)

NextBaseName ==
    \/ \E l \in BaseNameFileLists : BuildIndex(l)
    \/ \E q \in BaseNameQueryPool, k \in BaseNameLimits : Search(q, k)
    \/ Return

SpecBaseName == InitEngine /\ [][NextBaseName]_vars

(***************************************************************************)
(* rankFiles, called again and again on one engine                         *)
(***************************************************************************)
\* the limit search has when rankFiles calls it with the query alone
DefaultLimit == 100

\* results.map(r => ({ path, score, reasons }))
fileScores(results) ==
    [i \in 1..Len(results) |->
        [path |-> results[i].file, score |-> results[i].score,
         reasons |-> IF results[i].matchType = "exact" THEN <<"exact-match">>
                     ELSE IF results[i].matchType = "filename" THEN <<"filename-match">>
                     ELSE <<"keyword-match">>]]

\* the index after the first statement of rankFiles
indexFor(idx, files) ==
    IF Len(idx) = 0 \/ Len(idx) # Len(files) THEN buildIndex(files) ELSE idx

\* rankFiles(files, keywords, intent, projectRoot) with intent.originalPrompt
\* = query; `files` of the call record is history
RankFiles(files, query) ==
    /\ ~engineCall.made
    /\ index' = indexFor(index, files)
    /\ engineCall' = [made |-> TRUE, query |-> query, limit |-> DefaultLimit,
                      results |-> fileScores(search(indexFor(index, files), query,
                                                    DefaultLimit)),
                      files |-> files]
    /\ UNCHANGED <<normVars, parVars, shardVars, graphVars, intelVars, semanticVars>>

NextRank ==
    \/ \E l \in BaseNameFileLists, q \in BaseNameQueryPool : RankFiles(l, q)
    \/ Return

SpecRank == InitEngine /\ [][NextRank]_vars

(***************************************************************************)
(* Path sequence matching of scoreEntry, one term of the query at a time   *)
(***************************************************************************)
SequencePathPool ==
    { <<"o","a","u","t","h","/","a","u","t","h","-","a","p","i","/","d","o","m",".","t","s">>,
      <<"o","a","u","t","h","/","a","u","t","h","-","a","p","i","/","a","u","t","h","/","d","o","m",".","t","s">>,
      <<"r","a","n","d","o","m","/","d","o","m","-","e","v","e","n","t","s","/","a","u","t","h">>,
      <<"a","u","t","h","/","d","o","m","/","a","p","i",".","t","s">>,
      <<"a","u","t","h","_","x","/","f","r","e","e","d","o","m","/","d","o","m">>,
      <<"a","p","i","/","a","u","t","h","/","d","o","m">>,
      <<"d","o","m","/","a","u","t","h","-","a","p","i","/","x",".","t","s">>,
      <<"f","r","e","e","d","o","m","/","d","o","m","_","p","a","r","s","e","r","/","a","p","i">> }

SequenceQueryPool ==
    { <<"a","u","t","h"," ","d","o","m"," ","a","p","i">>,
      <<"d","o","m"," ","a","u","t","h"," ","a","p","i">>,
      <<"a","p","i"," ","a","u","t","h"," ","d","o","m">>,
      <<"a","u","t","h","/","d","o","m">>,
      <<"d","o","m","/","a","p","i">> }

\* scoreEntry reaches section D for the one entry of a fresh index: the loop
\* over the terms starts when the query has a '/' or three terms
ScorePath(path, query) ==
    /\ ~engineCall.made
    /\ includes(queryTrimmedOf(query), <<"/">>) \/ Len(termsOf(query)) >= 3
    /\ index' = buildIndex(<<path>>)
    /\ engineCall' = [made |-> TRUE, query |-> query, limit |-> 0, results |-> <<>>,
                      terms |-> termsOf(query), t |-> 1, lastMatchIndex |-> 0,
                      consecutiveMatches |-> 0, pathScore |-> 0, chosen |-> <<>>]
    /\ UNCHANGED <<normVars, parVars, shardVars, graphVars, intelVars, semanticVars>>

\* one pass of `for (const term of terms)`; `chosen` keeps, as history,
\* what the pass looked for, from where, and what it found
MatchTerm ==
    /\ engineCall.made
    /\ engineCall.t <= Len(engineCall.terms)
    /\ LET term == engineCall.terms[engineCall.t]
           m == findPathMatch(index[1].pathParts, term, 1, engineCall.lastMatchIndex, 0)
           hit == m.matchIndex > engineCall.lastMatchIndex
           c == engineCall.consecutiveMatches + 1
       IN  engineCall' =
             [engineCall EXCEPT
                !.t = @ + 1,
                !.lastMatchIndex = IF hit THEN m.matchIndex ELSE @,
                !.consecutiveMatches = IF hit THEN c ELSE 0,
                !.pathScore = IF hit THEN @ + 25 * c + (IF m.isExactMatch THEN 10 ELSE 0)
                              ELSE @,
                !.chosen = Append(@, [term |-> term, after |-> engineCall.lastMatchIndex,
                                      matchIndex |-> m.matchIndex,
                                      isExactMatch |-> m.isExactMatch])]
    /\ UNCHANGED <<index, normVars, parVars, shardVars, graphVars, intelVars, semanticVars>>

\* the loop has ended and score += pathScore is done: the engine is dropped
ScoreReturn ==
    /\ engineCall.made
    /\ engineCall.t > Len(engineCall.terms)
    /\ index' = <<>>
    /\ engineCall' = NoEngineCall
    /\ UNCHANGED <<normVars, parVars, shardVars, graphVars, intelVars, semanticVars>>

NextSequence ==
    \/ \E path \in SequencePathPool, q \in SequenceQueryPool : ScorePath(path, q)
    \/ MatchTerm
    \/ ScoreReturn

SpecSequence == InitEngine /\ [][NextSequence]_vars

(***************************************************************************)
(* normalizeSeparators applied to a string, and again to its own output    *)
(***************************************************************************)
TextAlphabet == {"a", "b", "A", "B", "_", "-", " "}

ScriptControllerCamel ==
    <<"S","c","r","i","p","t","C","o","n","t","r","o","l","l","e","r">>

ScriptControllerSnake ==
    <<"s","c","r","i","p","t","_","c","o","n","t","r","o","l","l","e","r">>

ScriptControllerKebab ==
    <<"s","c","r","i","p","t","-","c","o","n","t","r","o","l","l","e","r">>

ScriptControllerSpaced ==
    <<"s","c","r","i","p","t"," ","c","o","n","t","r","o","l","l","e","r">>

Texts ==
    UNION {[1..n -> TextAlphabet] : n \in 0..MaxTextLen}
    \cup {ScriptControllerCamel, ScriptControllerSnake, ScriptControllerKebab}

InitNorm ==
    /\ given \in Texts
    /\ text = <<>>
    /\ passes = 0
    /\ EngineIdle /\ ParIdle /\ ShardIdle /\ GraphIdle /\ IntelIdle /\ SemanticIdle

\* normalizeSeparators(given), then normalizeSeparators of what it returned
Normalize ==
    /\ passes < 2
    /\ text' = normalizeSeparators(IF passes = 0 THEN given ELSE text)
    /\ passes' = passes + 1
    /\ UNCHANGED <<given, engineVars, parVars, shardVars, graphVars, intelVars, semanticVars>>

NextNorm == Normalize

SpecNorm == InitNorm /\ [][NextNorm]_vars

(***************************************************************************)
(* search.worker.ts and ParallelMantic                                     *)
(***************************************************************************)
MaxCpu == 3

MaxFaults == 1

MaxParLimit == 1

MaxCalls == 1

MaxParFiles == 3

\* the list answered without re-sorting: concatenate and cut
mergeResultsUnsorted(resultsArrays, limit) ==
    LET RECURSIVE flat(_)
        flat(i) == IF i > Len(resultsArrays) THEN <<>>
                   ELSE resultsArrays[i] \o flat(i + 1)
    IN  sliceTo(flat(1), limit)

\* ParallelMantic.search after the await: resultsArrays.flat(), the final
\* sort and slice(0, limit)
mergeResults(resultsArrays, limit) ==
    LET RECURSIVE flat(_)
        flat(i) == IF i > Len(resultsArrays) THEN <<>>
                   ELSE resultsArrays[i] \o flat(i + 1)
    IN  sliceTo(sortResults(flat(1)), limit)

\* The worker's message handler when engine.search returns: the engine was
\* built over the worker's chunk at startup
workerReply(chunk, task) == search(buildIndex(chunk), task.query, task.limit)

\* initWorkers: the chunks workers are spawned for, in worker order
\* initWorkers without `if (chunk.length === 0) continue`
chunksOfWithEmpty(files, cpus) ==
    LET cpuCnt == IF cpus = 0 THEN 4 ELSE cpus
        workerCount == IF cpuCnt - 1 > 2 THEN cpuCnt - 1 ELSE 2
        chunkSize == (Len(files) + workerCount - 1) \div workerCount
    IN  [n \in 1..workerCount |->
            SubSeq(files, (n - 1) * chunkSize + 1,
                   IF n * chunkSize < Len(files) THEN n * chunkSize ELSE Len(files))]

\* initWorkers with Math.floor for Math.ceil
chunksOfFloor(files, cpus) ==
    LET cpuCnt == IF cpus = 0 THEN 4 ELSE cpus
        workerCount == IF cpuCnt - 1 > 2 THEN cpuCnt - 1 ELSE 2
        chunkSize == Len(files) \div workerCount
        chunk(i) == SubSeq(files, i * chunkSize + 1,
                           IF i * chunkSize + chunkSize < Len(files)
                           THEN i * chunkSize + chunkSize ELSE Len(files))
        RECURSIVE spawn(_)
        spawn(i) == IF i >= workerCount THEN <<>>
                    ELSE (IF chunk(i) = <<>> THEN <<>> ELSE <<chunk(i)>>) \o spawn(i + 1)
    IN  spawn(0)

chunksOf(files, cpus) ==
    LET cpuCnt == IF cpus = 0 THEN 4 ELSE cpus
        workerCount == IF cpuCnt - 1 > 2 THEN cpuCnt - 1 ELSE 2
        chunkSize == (Len(files) + workerCount - 1) \div workerCount
        chunk(i) == SubSeq(files, i * chunkSize + 1,
                           IF i * chunkSize + chunkSize < Len(files)
                           THEN i * chunkSize + chunkSize ELSE Len(files))
        RECURSIVE spawn(_)
        spawn(i) == IF i >= workerCount THEN <<>>
                    ELSE (IF chunk(i) = <<>> THEN <<>> ELSE <<chunk(i)>>) \o spawn(i + 1)
    IN  spawn(0)

\* history: which worker failures a call has seen (threw: the handler's catch
\* block ran for its task; errored: an error event rejected one of its
\* promises)
\*
\* A Worker: its chunk (workerData.files), the tasks posted to it and not yet
\* handled, its replies posted and not yet emitted in the main thread, and
\* the once-listeners registered on it, each the resolve or reject of one
\* promise (call, slot) of a search call.  The `call` of a task and of a
\* reply, and the `answers` of a promise (the call whose task the resolving
\* reply was computed for), are history: no code reads them.
NewThread(chunk) ==
    [chunk |-> chunk, alive |-> TRUE, inbox |-> <<>>, outbox |-> <<>>,
     messageListeners |-> <<>>, errorListeners |-> <<>>]

ParPathPool ==
    << <<"a","/","b","/","c",".","t","s">>,
       <<"g","p","u","/","m",".","t","s">>,
       <<"a","/","b","/","e",".","t","s">>,
       <<"x","/","g","p","u",".","t","s">> >>

\* the first n paths of the pool
ParFileLists == {SubSeq(ParPathPool, 1, n) : n \in 0..MaxParFiles}

ParQueryPool == { <<>>, <<"g","p","u">> }

ParLimits == 1..MaxParLimit

\* os.cpus().length: 0 when the platform reports no CPU, else MaxCpu
CpuCounts == {0, MaxCpu}

\* The state after new ParallelMantic(allFiles): the constructor runs
\* initWorkers, which spawns the workers and sets active
Init ==
    /\ allFiles \in ParFileLists
    /\ cpuCount \in CpuCounts
    /\ threads = [i \in 1..Len(chunksOf(allFiles, cpuCount)) |->
                     NewThread(chunksOf(allFiles, cpuCount)[i])]
    /\ workers = [i \in 1..Len(chunksOf(allFiles, cpuCount)) |-> i]
    /\ active = TRUE
    /\ terminated = FALSE
    /\ calls = <<>>
    /\ EngineIdle /\ NormIdle /\ ShardIdle /\ GraphIdle /\ IntelIdle /\ SemanticIdle

Pending(c) == calls[c].status = "pending"

\* history: the worker failures so far
FaultCount ==
    LET RECURSIVE sum(_)
        sum(c) == IF c > Len(calls) THEN 0
                  ELSE Cardinality(calls[c].threw) + Cardinality(calls[c].errored) + sum(c + 1)
    IN  sum(1)

\* the values of the promises in the order the replies arrived
resultsArraysByArrival(call) ==
    [n \in 1..Len(call.promises) |->
        IF n <= Len(call.arrival)
        THEN call.promises[CHOOSE i \in 1..Len(call.workers) :
                               call.workers[i] = call.arrival[n]].value
        ELSE call.promises[n].value]

\* Promise.all over the promises of a call: their values in the order of
\* this.workers, whatever the order they were resolved in
resultsArrays(call) == [i \in 1..Len(call.promises) |-> call.promises[i].value]

\* The call after some of its promises changed: Promise.all rejects with the
\* first rejection and resolves when every promise has resolved; the async
\* function then merges
settle(call) ==
    IF call.status # "pending" THEN call
    ELSE IF \E i \in 1..Len(call.promises) : call.promises[i].state = "rejected"
         THEN [call EXCEPT !.status = "rejected"]
    ELSE IF \A i \in 1..Len(call.promises) : call.promises[i].state = "resolved"
         THEN [call EXCEPT !.status = "resolved",
                           !.result = mergeResults(resultsArrays(call), call.limit)]
    ELSE call

\* search(query, limit), the part that runs synchronously
searchCall(query, limit) ==
    /\ LET c == Len(calls) + 1
           fresh == [query |-> query, limit |-> limit, workers |-> workers,
                     promises |-> [i \in 1..Len(workers) |->
                                      [state |-> "pending", value |-> <<>>,
                                       answers |-> 0]],
                     status |-> "pending", result |-> <<>>,
                     issuedAfterTerminate |-> terminated,
                     threw |-> {}, errored |-> {}, arrival |-> <<>>]
       IN  IF query = <<>>
           THEN /\ calls' = Append(calls, [fresh EXCEPT !.promises = <<>>,
                                                        !.status = "resolved"])
                /\ UNCHANGED threads
           ELSE /\ calls' = Append(calls, settle(fresh))
                /\ threads' =
                     [t \in 1..Len(threads) |->
                        IF \E i \in 1..Len(workers) : workers[i] = t
                        THEN LET slot == CHOOSE i \in 1..Len(workers) : workers[i] = t
                             IN  [threads[t] EXCEPT
                                    !.messageListeners = Append(@, [call |-> c, slot |-> slot]),
                                    !.errorListeners = Append(@, [call |-> c, slot |-> slot]),
                                    !.inbox = IF threads[t].alive
                                              THEN Append(@, [query |-> query, limit |-> limit,
                                                              call |-> c])
                                              ELSE @]
                        ELSE threads[t]]
    /\ UNCHANGED <<allFiles, cpuCount, workers, active, terminated,
                   engineVars, normVars, shardVars, graphVars, intelVars, semanticVars>>

\* a search call, while the number of calls is within the bound
ParallelSearchCall(query, limit) ==
    /\ Len(calls) < MaxCalls
    /\ searchCall(query, limit)

\* the caller awaits a call before it issues the next, as processRequest does
ParallelSearch(query, limit) ==
    /\ \A c \in 1..Len(calls) : ~Pending(c)
    /\ ParallelSearchCall(query, limit)

\* The message handler of a worker, engine.search returning
WorkerHandle(t) ==
    /\ threads[t].alive
    /\ threads[t].inbox # <<>>
    /\ LET task == Head(threads[t].inbox)
       IN  threads' = [threads EXCEPT
                         ![t].inbox = Tail(@),
                         ![t].outbox = Append(@, [value |-> workerReply(threads[t].chunk, task),
                                                  call |-> task.call])]
    /\ UNCHANGED <<allFiles, cpuCount, workers, active, terminated, calls,
                   engineVars, normVars, shardVars, graphVars, intelVars, semanticVars>>

\* The message handler of a worker, engine.search throwing: the catch block
\* logs the error and posts an empty list
WorkerHandleThrows(t) ==
    /\ FaultCount < MaxFaults
    /\ threads[t].alive
    /\ threads[t].inbox # <<>>
    /\ LET task == Head(threads[t].inbox)
       IN  /\ threads' = [threads EXCEPT
                            ![t].inbox = Tail(@),
                            ![t].outbox = Append(@, [value |-> <<>>, call |-> task.call])]
           /\ calls' = [calls EXCEPT ![task.call].threw = @ \cup {t}]
    /\ UNCHANGED <<allFiles, cpuCount, workers, active, terminated,
                   engineVars, normVars, shardVars, graphVars, intelVars, semanticVars>>

\* A reply of worker t is emitted as 'message' in the main thread: every
\* once('message') listener registered on the Worker runs with it and is
\* removed
Deliver(t) ==
    /\ threads[t].outbox # <<>>
    /\ LET msg == Head(threads[t].outbox)
           ls == threads[t].messageListeners
           Hears(c, i) == \E n \in 1..Len(ls) : ls[n].call = c /\ ls[n].slot = i
           heard(c) ==
               [calls[c] EXCEPT
                  !.promises = [i \in 1..Len(calls[c].promises) |->
                                  IF Hears(c, i) /\ calls[c].promises[i].state = "pending"
                                  THEN [state |-> "resolved", value |-> msg.value,
                                        answers |-> msg.call]
                                  ELSE calls[c].promises[i]],
                  !.arrival = IF \E i \in 1..Len(calls[c].promises) : Hears(c, i)
                              THEN Append(@, t) ELSE @]
       IN  /\ calls' = [c \in 1..Len(calls) |-> settle(heard(c))]
           /\ threads' = [threads EXCEPT ![t].outbox = Tail(@),
                                         ![t].messageListeners = <<>>]
    /\ UNCHANGED <<allFiles, cpuCount, workers, active, terminated,
                   engineVars, normVars, shardVars, graphVars, intelVars, semanticVars>>

\* An uncaught exception ends worker t and is emitted as 'error' in the main
\* thread: every once('error') listener runs and is removed.  (With no
\* listener registered the error is unhandled in the main thread, which ends
\* the process.)
WorkerError(t) ==
    /\ FaultCount < MaxFaults
    /\ threads[t].alive
    /\ threads[t].errorListeners # <<>>
    /\ LET ls == threads[t].errorListeners
           Hears(c, i) == \E n \in 1..Len(ls) : ls[n].call = c /\ ls[n].slot = i
           heard(c) ==
               [calls[c] EXCEPT
                  !.promises = [i \in 1..Len(calls[c].promises) |->
                                  IF Hears(c, i) /\ calls[c].promises[i].state = "pending"
                                  THEN [state |-> "rejected", value |-> <<>>, answers |-> 0]
                                  ELSE calls[c].promises[i]],
                  !.errored = IF \E i \in 1..Len(calls[c].promises) :
                                     Hears(c, i) /\ calls[c].promises[i].state = "pending"
                              THEN @ \cup {t} ELSE @]
       IN  /\ calls' = [c \in 1..Len(calls) |-> settle(heard(c))]
           /\ threads' = [threads EXCEPT ![t].alive = FALSE,
                                         ![t].inbox = <<>>,
                                         ![t].errorListeners = <<>>]
    /\ UNCHANGED <<allFiles, cpuCount, workers, active, terminated,
                   engineVars, normVars, shardVars, graphVars, intelVars, semanticVars>>

\* terminate(): every held worker is terminated, active is cleared and the
\* array is emptied.  Replies a worker posted before it stopped are still
\* emitted; tasks it had not handled are lost.
Terminate ==
    /\ ~terminated
    /\ threads' = [t \in 1..Len(threads) |->
                     IF \E i \in 1..Len(workers) : workers[i] = t
                     THEN [threads[t] EXCEPT !.alive = FALSE, !.inbox = <<>>]
                     ELSE threads[t]]
    /\ active' = FALSE
    /\ workers' = <<>>
    /\ terminated' = TRUE
    /\ UNCHANGED <<allFiles, cpuCount, calls, engineVars, normVars, shardVars, graphVars, intelVars, semanticVars>>

Next ==
    \/ \E q \in ParQueryPool, k \in ParLimits : ParallelSearch(q, k)
    \/ \E t \in 1..Len(threads) : WorkerHandle(t)
    \/ \E t \in 1..Len(threads) : WorkerHandleThrows(t)
    \/ \E t \in 1..Len(threads) : Deliver(t)
    \/ \E t \in 1..Len(threads) : WorkerError(t)
    \/ Terminate

Spec == Init /\ [][Next]_vars

\* The orchestrator with its scheduling: every live worker goes on to
\* handle a task that was posted to it (its handler returning or throwing),
\* and the main thread's event loop goes on to emit a reply that was posted.
\* This is weak fairness of the handling and of the delivery of each worker,
\* that of the handling written out with the guard of the action.  Failures and terminate() may
\* or may not happen.
canHandle(t) == t <= Len(threads) /\ threads[t].alive /\ threads[t].inbox # <<>>

handles(t) ==
    /\ canHandle(t)
    /\ threads'[t].inbox = Tail(threads[t].inbox)
    /\ Len(threads'[t].outbox) = Len(threads[t].outbox) + 1

canDeliver(t) == t <= Len(threads) /\ threads[t].outbox # <<>>

SpecLive ==
    /\ Init
    /\ [][Next]_vars
    /\ \A t \in 1..MaxCpu : []<>(~canHandle(t)) \/ []<><<handles(t)>>_vars
    /\ \A t \in 1..MaxCpu : WF_vars(canDeliver(t) /\ Deliver(t))

(***************************************************************************)
(* Search calls that overlap: a caller that does not await one call        *)
(* before it issues the next                                               *)
(***************************************************************************)
MaxOverlap == 2

OverlapQueryPool == { <<"g","p","u">>, <<"c">> }

OverlappingSearch(query, limit) ==
    /\ Len(calls) < MaxOverlap
    /\ searchCall(query, limit)

NextOverlap ==
    \/ \E q \in OverlapQueryPool, k \in ParLimits : OverlappingSearch(q, k)
    \/ \E t \in 1..Len(threads) : WorkerHandle(t)
    \/ \E t \in 1..Len(threads) : Deliver(t)

SpecOverlap == Init /\ [][NextOverlap]_vars

(***************************************************************************)
(* Both search entry points with queries that have no terms                *)
(***************************************************************************)
BlankQueryPool == { <<>>, <<" ">>, <<"g","p","u">> }

BlankFileLists == {SubSeq(ParPathPool, 1, MaxParFiles)}

NextBlank ==
    \/ \E l \in BlankFileLists : BuildIndex(l)
    \/ \E q \in BlankQueryPool, k \in ParLimits : Search(q, k)
    \/ Return
    \/ \E q \in BlankQueryPool, k \in ParLimits : ParallelSearch(q, k)
    \/ \E t \in 1..Len(threads) : WorkerHandle(t)
    \/ \E t \in 1..Len(threads) : Deliver(t)
    \/ Terminate

SpecBlank == Init /\ [][NextBlank]_vars

(***************************************************************************)
(* One query over a partition into contiguous shards and over the whole    *)
(* list                                                                    *)
(***************************************************************************)
MaxShardFiles == 4

ShardPathPool ==
    << <<"a","/","b","/","c",".","t","s">>,
       <<"g","p","u","/","m",".","t","s">>,
       <<"a","/","b","/","e",".","t","s">>,
       <<"x","/","g","p","u",".","t","s">>,
       <<"f",".","t","s">> >>

ShardQueryPool == { <<"g","p","u">>, <<"c">>, <<"a"," ","b">> }

\* files cut after the positions in `cuts`
shardsAt(files, cuts) ==
    LET RECURSIVE from(_)
        from(start) ==
            IF start > Len(files) THEN <<>>
            ELSE LET ends == {c \in cuts : c >= start} \cup {Len(files)}
                     end == CHOOSE x \in ends : \A y \in ends : x <= y
                 IN  <<SubSeq(files, start, end)>> \o from(end + 1)
    IN  from(1)

\* every partition of files into one or more contiguous shards
Partitions(files) ==
    IF files = <<>> THEN {<<>>}
    ELSE {shardsAt(files, cuts) : cuts \in SUBSET (1..(Len(files) - 1))}

ShardedLists == UNION {Partitions(l) : l \in FileLists(ShardPathPool, MaxShardFiles)}

wholeList(parts) ==
    LET RECURSIVE flat(_)
        flat(i) == IF i > Len(parts) THEN <<>> ELSE parts[i] \o flat(i + 1)
    IN  flat(1)

InitShards ==
    /\ shards \in ShardedLists
    /\ shardCall = NoShardCall
    /\ EngineIdle /\ NormIdle /\ ParIdle /\ GraphIdle /\ IntelIdle /\ SemanticIdle

\* The query is broadcast and every shard's worker answers with
\* engine.search(query, limit) over its own shard; the same query is put to
\* one engine indexed over the whole list
ShardedSearch(query, limit) ==
    /\ shardCall.stage = "idle"
    /\ shardCall' = [stage |-> "replied", query |-> query, limit |-> limit,
                     replies |-> [i \in 1..Len(shards) |->
                                     workerReply(shards[i], [query |-> query,
                                                             limit |-> limit])],
                     merged |-> <<>>,
                     single |-> search(buildIndex(wholeList(shards)), query, limit)]
    /\ UNCHANGED <<shards, engineVars, normVars, parVars, graphVars, intelVars, semanticVars>>

\* ParallelMantic.search merges the replies
ShardedMerge ==
    /\ shardCall.stage = "replied"
    /\ shardCall' = [shardCall EXCEPT
                       !.stage = "merged",
                       !.merged = mergeResults(shardCall.replies, shardCall.limit)]
    /\ UNCHANGED <<shards, engineVars, normVars, parVars, graphVars, intelVars, semanticVars>>

ShardedReturn ==
    /\ shardCall.stage = "merged"
    /\ shardCall' = NoShardCall
    /\ UNCHANGED <<shards, engineVars, normVars, parVars, graphVars, intelVars, semanticVars>>

NextShards ==
    \/ \E q \in ShardQueryPool, k \in 1..MaxLimit : ShardedSearch(q, k)
    \/ ShardedMerge
    \/ ShardedReturn

SpecShards == InitShards /\ [][NextShards]_vars

(***************************************************************************)
(* The dependency graph builder: path functions of Node                    *)
(***************************************************************************)
lastOf(S) == CHOOSE x \in S : \A y \in S : y <= x

\* path.dirname: the path up to the last '/' that something other than '/'
\* follows, the first character apart
dirname(p) ==
    LET ends == {i \in 2..Len(p) : p[i] = "/" /\ \E j \in (i + 1)..Len(p) : p[j] # "/"}
        hasRoot == p # <<>> /\ p[1] = "/"
    IN  IF ends = {} THEN (IF hasRoot THEN <<"/">> ELSE <<".">>)
        ELSE IF hasRoot /\ lastOf(ends) = 2 THEN <<"/", "/">>
        ELSE SubSeq(p, 1, lastOf(ends) - 1)

\* path.normalize: empty and '.' segments dropped, '..' takes the segment
\* before it away (and stays when a relative path has none left), a trailing
\* '/' kept
normalize(p) ==
    LET isAbsolute == p[1] = "/"
        trailingSeparator == p[Len(p)] = "/"
        segs == splitChars(p, {"/"})
        up == <<".", ".">>
        RECURSIVE walk(_, _)
        walk(i, res) ==
            IF i > Len(segs) THEN res
            ELSE IF segs[i] = <<>> \/ segs[i] = <<".">> THEN walk(i + 1, res)
            ELSE IF segs[i] # up THEN walk(i + 1, Append(res, segs[i]))
            ELSE IF res # <<>> /\ res[Len(res)] # up
                 THEN walk(i + 1, SubSeq(res, 1, Len(res) - 1))
            ELSE IF isAbsolute THEN walk(i + 1, res)
            ELSE walk(i + 1, Append(res, up))
        RECURSIVE glue(_)
        glue(l) == IF l = <<>> THEN <<>>
                   ELSE IF Len(l) = 1 THEN l[1]
                   ELSE l[1] \o <<"/">> \o glue(Tail(l))
        body == glue(walk(1, <<>>))
    IN  IF p = <<>> THEN <<".">>
        ELSE IF body = <<>>
             THEN (IF isAbsolute THEN <<"/">>
                   ELSE IF trailingSeparator THEN <<".", "/">> ELSE <<".">>)
        ELSE (IF isAbsolute THEN <<"/">> ELSE <<>>) \o body
             \o (IF trailingSeparator THEN <<"/">> ELSE <<>>)

\* path.join of two non-empty arguments
join(a, b) == normalize(a \o <<"/">> \o b)

\* path.extname: from the last '.' of the last segment, trailing '/' apart;
\* empty when there is no '.', when the segment starts with its only '.', and
\* for '..'
extname(p) ==
    LET nonSlash == {i \in 1..Len(p) : p[i] # "/"}
    IN  IF nonSlash = {} THEN <<>>
        ELSE LET end == lastOf(nonSlash)
                 slashes == {i \in 1..end : p[i] = "/"}
                 startPart == IF slashes = {} THEN 1 ELSE lastOf(slashes) + 1
                 base == SubSeq(p, startPart, end)
                 dots == {i \in 1..Len(base) : base[i] = "."}
             IN  IF dots = {} THEN <<>>
                 ELSE IF lastOf(dots) = 1 \/ base = <<".", ".">> THEN <<>>
                 ELSE SubSeq(base, lastOf(dots), Len(base))

(***************************************************************************)
(* resolveImportPath                                                       *)
(***************************************************************************)
\* the value null; no path resolveImportPath returns is the empty string
null == <<>>

\* the probes with the extensionless file first
extensionsBareFirst ==
    << <<>>,
       <<".","t","s">>,
       <<".","t","s","x">>,
       <<".","j","s">>,
       <<".","j","s","x">>,
       <<".","m","j","s">> >>

extensions ==
    << <<".","t","s">>,
       <<".","t","s","x">>,
       <<".","j","s">>,
       <<".","j","s","x">>,
       <<".","m","j","s">>,
       <<>> >>

indexFiles ==
    << <<"/","i","n","d","e","x",".","t","s">>,
       <<"/","i","n","d","e","x",".","t","s","x">>,
       <<"/","i","n","d","e","x",".","j","s">>,
       <<"/","i","n","d","e","x",".","j","s","x">> >>

aliasPrefix == <<"@", "/">>

\* candidatePath as the two loops see it: the alias rewritten, joined to the
\* importer's directory, the extension taken off
candidatePathOf(importSource, importerPath) ==
    LET resolvedSource ==
            IF startsWith(importSource, aliasPrefix)
            THEN <<"s", "r", "c", "/">> \o SubSeq(importSource, 3, Len(importSource))
            ELSE importSource
        joined == join(dirname(importerPath), resolvedSource)
    IN  SubSeq(joined, 1, Len(joined) - Len(extname(joined)))

\* a loop that falls back on its first testPath when none is known
firstKnownOrGuess(candidatePath, suffixes, allFilesArg) ==
    LET hits == {n \in 1..Len(suffixes) :
                    \E i \in 1..Len(allFilesArg) : allFilesArg[i] = candidatePath \o suffixes[n]}
    IN  IF hits = {} THEN candidatePath \o suffixes[1]
        ELSE candidatePath \o suffixes[CHOOSE n \in hits : \A m \in hits : n <= m]

\* one of the two loops: the first testPath that allFiles includes, or null
firstKnown(candidatePath, suffixes, allFilesArg) ==
    LET hits == {n \in 1..Len(suffixes) :
                    \E i \in 1..Len(allFilesArg) : allFilesArg[i] = candidatePath \o suffixes[n]}
    IN  IF hits = {} THEN null
        ELSE candidatePath \o suffixes[CHOOSE n \in hits : \A m \in hits : n <= m]

resolveFrom(candidatePath, allFilesArg) ==
    IF firstKnown(candidatePath, extensions, allFilesArg) # null
    THEN firstKnown(candidatePath, extensions, allFilesArg)
    ELSE firstKnown(candidatePath, indexFiles, allFilesArg)

\* resolveImportPath without its first test
resolveImportPathUnguarded(importSource, importerPath, allFilesArg) ==
    resolveFrom(candidatePathOf(importSource, importerPath), allFilesArg)

resolveImportPath(importSource, importerPath, allFilesArg) ==
    IF ~startsWith(importSource, <<".">>) /\ ~startsWith(importSource, aliasPrefix)
    THEN null
    ELSE resolveFrom(candidatePathOf(importSource, importerPath), allFilesArg)

(***************************************************************************)
(* The dependency graph builder as a state machine: one call at a time of  *)
(* resolveImportPath, buildDependencyGraph or calculateImportRanks         *)
(***************************************************************************)
MaxKnown == 2

SourcePool ==
    { <<"r","e","a","c","t">>,
       <<"@","s","c","o","p","e","/","p","k","g">>,
       <<".","/","a","u","t","h">>,
       <<".",".","/","u","t","i","l","s","/","a","u","t","h">>,
       <<"@","/","u","t","i","l","s","/","a","u","t","h">>,
       <<".","/","a","u","t","h",".","j","s">>,
       <<".","/","u","s","e","r",".","s","e","r","v","i","c","e">> }

ImporterPool ==
    { <<"m","a","i","n",".","t","s">>,
       <<"s","r","c","/","u","t","i","l","s","/","l","o","g","i","n",".","t","s">>,
       <<"s","r","c","/","c","o","m","p","o","n","e","n","t","s","/","B","u","t","t","o","n",".","t","s","x">> }

\* the ten candidates of src/utils/auth, and files named like other specifiers
KnownPool ==
    << <<"s","r","c","/","u","t","i","l","s","/","a","u","t","h">>,
       <<"s","r","c","/","u","t","i","l","s","/","a","u","t","h",".","t","s">>,
       <<"s","r","c","/","u","t","i","l","s","/","a","u","t","h",".","t","s","x">>,
       <<"s","r","c","/","u","t","i","l","s","/","a","u","t","h",".","j","s">>,
       <<"s","r","c","/","u","t","i","l","s","/","a","u","t","h",".","j","s","x">>,
       <<"s","r","c","/","u","t","i","l","s","/","a","u","t","h",".","m","j","s">>,
       <<"s","r","c","/","u","t","i","l","s","/","a","u","t","h","/","i","n","d","e","x",".","t","s">>,
       <<"s","r","c","/","u","t","i","l","s","/","a","u","t","h","/","i","n","d","e","x",".","t","s","x">>,
       <<"s","r","c","/","u","t","i","l","s","/","a","u","t","h","/","i","n","d","e","x",".","j","s">>,
       <<"s","r","c","/","u","t","i","l","s","/","a","u","t","h","/","i","n","d","e","x",".","j","s","x">>,
       <<"r","e","a","c","t">>,
       <<"r","e","a","c","t",".","t","s">>,
       <<"@","s","c","o","p","e","/","p","k","g",".","t","s">>,
       <<"s","r","c","/","u","t","i","l","s","/","u","s","e","r",".","t","s">>,
       <<"s","r","c","/","u","t","i","l","s","/","u","s","e","r",".","s","e","r","v","i","c","e",".","t","s">>,
       <<"a","u","t","h",".","t","s">> >>

\* allFiles is read through includes only: the lists in the pool's order
KnownLists == listsFrom(KnownPool, 1, MaxKnown)

InitGraph ==
    /\ GraphIdle
    /\ EngineIdle /\ NormIdle /\ ParIdle /\ ShardIdle /\ IntelIdle /\ SemanticIdle

\* resolveImportPath(importSource, importerPath, allFiles, cwd); cwd is not read
Resolve(importSource, importerPath, allFilesArg) ==
    /\ GraphIdle
    /\ resolveCall' = [made |-> TRUE, importSource |-> importSource,
                       importerPath |-> importerPath, allFiles |-> allFilesArg,
                       result |-> resolveImportPath(importSource, importerPath, allFilesArg)]
    /\ UNCHANGED <<build, rankCall, engineVars, normVars, parVars, shardVars,
                 intelVars, semanticVars>>

\* the caller takes the returned path
ResolveReturn ==
    /\ resolveCall.made
    /\ resolveCall' = NoResolveCall
    /\ UNCHANGED <<build, rankCall, engineVars, normVars, parVars, shardVars,
                 intelVars, semanticVars>>

(***************************************************************************)
(* buildDependencyGraph                                                    *)
(***************************************************************************)
MaxGraphFiles == 3

MaxConcurrency == 2

MaxReadFaults == 1

GraphPathPool ==
    << <<"m","a","i","n",".","t","s">>,
       <<"s","r","c","/","a","p","p",".","t","s">>,
       <<"s","r","c","/","u","t","i","l","s","/","a","u","t","h",".","t","s">>,
       <<"s","r","c","/","t","y","p","e","s",".","t","s">> >>

GraphFileLists == FileLists(GraphPathPool, MaxGraphFiles)

\* What the regular expressions of extractImports and extractExports find in
\* the files of the pool.  Of an ImportStatement only `source` is read by
\* the graph builder.
Contents(filepath) ==
    CASE filepath = <<"m","a","i","n",".","t","s">> ->
           [imports |-> << [source |-> <<"@","/","u","t","i","l","s","/","a","u","t","h">>], [source |-> <<".","/","s","r","c","/","a","p","p">>], [source |-> <<"r","e","a","c","t">>] >>,
            exports |-> <<>>]
      [] filepath = <<"s","r","c","/","a","p","p",".","t","s">> ->
           [imports |-> << [source |-> <<".","/","u","t","i","l","s","/","a","u","t","h">>], [source |-> <<".","/","u","t","i","l","s","/","a","u","t","h",".","j","s">>], [source |-> <<"@","/","u","t","i","l","s","/","a","u","t","h">>], [source |-> <<".","/","t","y","p","e","s">>] >>,
            exports |-> << <<"A","p","p">>, <<"d","e","f","a","u","l","t">> >>]
      [] filepath = <<"s","r","c","/","u","t","i","l","s","/","a","u","t","h",".","t","s">> ->
           [imports |-> << [source |-> <<".",".","/","t","y","p","e","s">>], [source |-> <<"l","o","d","a","s","h">>] >>,
            exports |-> << <<"l","o","g","i","n">> >>]
      [] filepath = <<"s","r","c","/","t","y","p","e","s",".","t","s">> ->
           [imports |-> <<>>,
            exports |-> << <<"U","s","e","r">> >>]
      [] OTHER -> [imports |-> <<>>, exports |-> <<>>]

\* extractImports without its catch block's empty list
extractImportsAlways(filepath, readable) == Contents(filepath).imports

\* extractImports and extractExports, by whether their own readFile succeeds
extractImports(filepath, readable) ==
    IF readable THEN Contents(filepath).imports ELSE <<>>

extractExports(filepath, readable) ==
    IF readable THEN Contents(filepath).exports ELSE <<>>

\* files.slice(i, i + maxConcurrency), i counted from 0
batchOfShort(files, i, maxConcurrency) ==
    SubSeq(files, i + 1, IF maxConcurrency < Len(files) THEN maxConcurrency ELSE Len(files))

\* files.slice(i): the rest of the list in one batch
batchOfRest(files, i, maxConcurrency) == SubSeq(files, i + 1, Len(files))

batchOf(files, i, maxConcurrency) ==
    SubSeq(files, i + 1,
           IF i + maxConcurrency < Len(files) THEN i + maxConcurrency ELSE Len(files))

\* Map and Set keep insertion order: a Map is a sequence of [key, value], a
\* Set a sequence without repetition
mapHas(map, key) == \E n \in 1..Len(map) : map[n].key = key

mapGet(map, key) == map[CHOOSE n \in 1..Len(map) : map[n].key = key].value

mapSet(map, key, value) ==
    IF mapHas(map, key)
    THEN [n \in 1..Len(map) |->
            IF map[n].key = key THEN [key |-> key, value |-> value] ELSE map[n]]
    ELSE Append(map, [key |-> key, value |-> value])

setAdd(set, x) == IF \E n \in 1..Len(set) : set[n] = x THEN set ELSE Append(set, x)

\* for (const { filepath, imports, exports } of results) nodes.set(...)
setNodes(nodes, results) ==
    LET RECURSIVE put(_, _)
        put(n, acc) ==
            IF n > Len(results) THEN acc
            ELSE put(n + 1, mapSet(acc, results[n].filepath,
                                   [path |-> results[n].filepath,
                                    imports |-> results[n].imports,
                                    exports |-> results[n].exports,
                                    dependents |-> <<>>]))
    IN  put(1, nodes)

\* the reverse pass: for every node and every import of it that resolves,
\* the importer is added to the set of the resolved file
reverseLookupOf(nodes, files) ==
    LET add(rl, resolved, filepath) ==
            IF resolved = null THEN rl
            ELSE mapSet(rl, resolved,
                        setAdd(IF mapHas(rl, resolved) THEN mapGet(rl, resolved) ELSE <<>>,
                               filepath))
        RECURSIVE pass(_, _, _)
        pass(n, k, rl) ==
            IF n > Len(nodes) THEN rl
            ELSE IF k > Len(nodes[n].value.imports) THEN pass(n + 1, 1, rl)
            ELSE pass(n, k + 1,
                      add(rl,
                          resolveImportPath(nodes[n].value.imports[k].source,
                                            nodes[n].key, files),
                          nodes[n].key))
    IN  pass(1, 1, <<>>)

\* node.dependents = Array.from(dependentSet) for the keys that have a node
dependentsFirstOnly(nodes, reverseLookup) ==
    [n \in 1..Len(nodes) |->
        IF mapHas(reverseLookup, nodes[n].key)
        THEN [nodes[n] EXCEPT !.value.dependents =
                                 SubSeq(mapGet(reverseLookup, nodes[n].key), 1, 1)]
        ELSE nodes[n]]

populateDependents(nodes, reverseLookup) ==
    [n \in 1..Len(nodes) |->
        IF mapHas(reverseLookup, nodes[n].key)
        THEN [nodes[n] EXCEPT !.value.dependents = mapGet(reverseLookup, nodes[n].key)]
        ELSE nodes[n]]

\* the part of buildDependencyGraph after the batch loop
graphOf(nodes, files) ==
    [nodes |-> populateDependents(nodes, reverseLookupOf(nodes, files)),
     reverseLookup |-> reverseLookupOf(nodes, files)]

\* the reads of a batch: every mapper has called extractImports
startBatch(b, i) ==
    [b EXCEPT !.i = i,
              !.stage = [k \in 1..Len(batchOf(b.files, i, b.maxConcurrency)) |-> "imports"],
              !.results = [k \in 1..Len(batchOf(b.files, i, b.maxConcurrency)) |->
                             [filepath |-> batchOf(b.files, i, b.maxConcurrency)[k],
                              imports |-> <<>>, exports |-> <<>>]]]

\* buildDependencyGraph(files, cwd, maxConcurrency) up to its first await;
\* with no file there is none, and the function returns the empty graph
Build(files, maxConcurrency) ==
    /\ GraphIdle
    /\ LET fresh == [pc |-> "reading", files |-> files, maxConcurrency |-> maxConcurrency,
                     i |-> 0, stage |-> <<>>, results |-> <<>>, nodes |-> <<>>,
                     failed |-> {}, overtaken |-> FALSE,
                     graph |-> [nodes |-> <<>>, reverseLookup |-> <<>>]]
       IN  build' = IF files = <<>> THEN [fresh EXCEPT !.pc = "returned"]
                    ELSE startBatch(fresh, 0)
    /\ UNCHANGED <<resolveCall, rankCall, engineVars, normVars, parVars, shardVars,
                 intelVars, semanticVars>>

\* the read of extractImports for the k-th file of the batch ends; the mapper
\* goes on to extractExports
ExtractImportsDone(k, readable) ==
    /\ build.pc = "reading"
    /\ k \in 1..Len(build.stage)
    /\ build.stage[k] = "imports"
    /\ readable \/ Cardinality(build.failed) < MaxReadFaults
    /\ build' = [build EXCEPT
                   !.stage[k] = "exports",
                   !.results[k].imports = extractImports(build.results[k].filepath, readable),
                   !.failed = IF readable THEN @
                              ELSE @ \cup {[file |-> build.results[k].filepath,
                                            read |-> "imports"]},
                   !.overtaken = @ \/ \E j \in 1..(k - 1) : build.stage[j] # "done"]
    /\ UNCHANGED <<resolveCall, rankCall, engineVars, normVars, parVars, shardVars,
                 intelVars, semanticVars>>

\* the read of extractExports for the k-th file of the batch ends
ExtractExportsDone(k, readable) ==
    /\ build.pc = "reading"
    /\ k \in 1..Len(build.stage)
    /\ build.stage[k] = "exports"
    /\ readable \/ Cardinality(build.failed) < MaxReadFaults
    /\ build' = [build EXCEPT
                   !.stage[k] = "done",
                   !.results[k].exports = extractExports(build.results[k].filepath, readable),
                   !.failed = IF readable THEN @
                              ELSE @ \cup {[file |-> build.results[k].filepath,
                                            read |-> "exports"]},
                   !.overtaken = @ \/ \E j \in 1..(k - 1) : build.stage[j] # "done"]
    /\ UNCHANGED <<resolveCall, rankCall, engineVars, normVars, parVars, shardVars,
                 intelVars, semanticVars>>

\* Promise.all of the batch resolves: the nodes are set, and either the next
\* batch starts or the reverse pass and the dependents pass run and the
\* function returns
BatchDone ==
    /\ build.pc = "reading"
    /\ \A k \in 1..Len(build.stage) : build.stage[k] = "done"
    /\ LET filled == [build EXCEPT !.nodes = setNodes(build.nodes, build.results)]
       IN  build' = IF build.i + build.maxConcurrency < Len(build.files)
                    THEN startBatch(filled, build.i + build.maxConcurrency)
                    ELSE [filled EXCEPT !.pc = "returned", !.stage = <<>>, !.results = <<>>,
                                        !.graph = graphOf(filled.nodes, build.files)]
    /\ UNCHANGED <<resolveCall, rankCall, engineVars, normVars, parVars, shardVars,
                 intelVars, semanticVars>>

\* the caller takes the graph
BuildReturn ==
    /\ build.pc = "returned"
    /\ build' = NoBuild
    /\ UNCHANGED <<resolveCall, rankCall, engineVars, normVars, parVars, shardVars,
                 intelVars, semanticVars>>

(***************************************************************************)
(* calculateImportRanks                                                    *)
(***************************************************************************)
\* A number is a double: 53 significant bits.  A value is kept exactly as
\* its integer part and the bits after the binary point.
SignificandBits == 53

bitLength(n) ==
    LET RECURSIVE len(_)
        len(m) == IF m = 0 THEN 0 ELSE 1 + len(m \div 2)
    IN  len(n)

\* the bits after the point a double can keep beside the integer part int:
\* SignificandBits less those of int, the zeros leading the fraction free
keptBits(int, frac) ==
    IF int > 0 THEN SignificandBits - bitLength(int)
    ELSE LET ones == {i \in 1..Len(frac) : frac[i] = 1}
         IN  IF ones = {} THEN Len(frac)
             ELSE (CHOOSE i \in ones : \A j \in ones : i <= j) - 1 + SignificandBits

\* one unit in the last place added
nextUp(x) ==
    LET zeros == {i \in 1..Len(x.frac) : x.frac[i] = 0}
    IN  IF zeros = {}
        THEN [int |-> x.int + 1, frac |-> [i \in 1..Len(x.frac) |-> 0]]
        ELSE [int |-> x.int,
              frac |-> [i \in 1..Len(x.frac) |->
                          IF i < lastOf(zeros) THEN x.frac[i]
                          ELSE IF i = lastOf(zeros) THEN 1 ELSE 0]]

\* count / maxDependents, rounded to nearest, ties to even
divide(count, maxDependents) ==
    LET int == count \div maxDependents
        RECURSIVE digits(_, _)
        \* r: the remainder so far, frac: the bits produced so far
        digits(r, frac) ==
            IF r = 0 THEN [int |-> int, frac |-> frac]
            ELSE IF Len(frac) >= keptBits(int, frac) /\ (int > 0 \/ \E i \in 1..Len(frac) : frac[i] = 1)
                 THEN LET low == IF frac = <<>> THEN int % 2 ELSE frac[Len(frac)]
                      IN  IF 2 * r > maxDependents \/ (2 * r = maxDependents /\ low = 1)
                          THEN nextUp([int |-> int, frac |-> frac])
                          ELSE [int |-> int, frac |-> frac]
            ELSE digits((2 * r) % maxDependents,
                        Append(frac, IF 2 * r >= maxDependents THEN 1 ELSE 0))
    IN  digits(count % maxDependents, <<>>)

\* x * 100, rounded to nearest, ties to even
times100(x) ==
    LET RECURSIVE carryAt(_)
        \* the carry out of the fraction bits from position i to the last
        carryAt(i) == IF i > Len(x.frac) THEN 0
                      ELSE (100 * x.frac[i] + carryAt(i + 1)) \div 2
        int == 100 * x.int + carryAt(1)
        frac == [i \in 1..Len(x.frac) |-> (100 * x.frac[i] + carryAt(i + 1)) % 2]
        keep == keptBits(int, frac)
    IN  IF Len(frac) <= keep THEN [int |-> int, frac |-> frac]
        ELSE LET low == IF keep = 0 THEN int % 2 ELSE frac[keep]
                 rest == \E i \in (keep + 2)..Len(frac) : frac[i] = 1
                 cut == [int |-> int, frac |-> SubSeq(frac, 1, keep)]
             IN  IF frac[keep + 1] = 1 /\ (rest \/ low = 1) THEN nextUp(cut) ELSE cut

\* Math.round: the nearest integer, a half going up
mathRound(x) == x.int + (IF x.frac # <<>> /\ x.frac[1] = 1 THEN 1 ELSE 0)

\* Math.round((count / maxDependents) * 100)
normalizedRank(count, maxDependents) == mathRound(times100(divide(count, maxDependents)))

calculateImportRanks(reverseLookup) ==
    LET dependentCounts == [n \in 1..Len(reverseLookup) |->
                               <<reverseLookup[n].key, Len(reverseLookup[n].value)>>]
        maxDependents == lastOf({dependentCounts[n][2] : n \in 1..Len(dependentCounts)})
    IN  IF Len(dependentCounts) = 0 THEN <<>>
        ELSE [n \in 1..Len(dependentCounts) |->
                [key |-> dependentCounts[n][1],
                 value |-> normalizedRank(dependentCounts[n][2], maxDependents)]]

MaxDependents == 40

Digits == <<"0", "1", "2", "3", "4", "5", "6", "7", "8", "9">>

\* the path of the i-th importing file
importer(i) ==
    <<"f", Digits[((i \div 100) % 10) + 1], Digits[((i \div 10) % 10) + 1],
      Digits[(i % 10) + 1], ".", "t", "s">>

\* a Set of n importing files
dependentSet(n) == [i \in 1..n |-> importer(i)]

\* the reverseLookup maps a graph can hold over two imported files: no entry,
\* one entry, two entries, every set with at least one member
RankInputs ==
    {<<>>}
    \cup {<< [key |-> GraphPathPool[3], value |-> dependentSet(a)] >> : a \in 1..MaxDependents}
    \cup {<< [key |-> GraphPathPool[3], value |-> dependentSet(a)],
             [key |-> GraphPathPool[4], value |-> dependentSet(b)] >> :
             a \in 1..MaxDependents, b \in 1..MaxDependents}

\* calculateImportRanks(graph)
Rank(reverseLookup) ==
    /\ GraphIdle
    /\ rankCall' = [made |-> TRUE, reverseLookup |-> reverseLookup,
                    ranks |-> calculateImportRanks(reverseLookup)]
    /\ UNCHANGED <<resolveCall, build, engineVars, normVars, parVars, shardVars,
                 intelVars, semanticVars>>

\* the caller takes the map of ranks
RankReturn ==
    /\ rankCall.made
    /\ rankCall' = NoRankCall
    /\ UNCHANGED <<resolveCall, build, engineVars, normVars, parVars, shardVars,
                 intelVars, semanticVars>>

NextGraph ==
    \/ \E src \in SourcePool, imp \in ImporterPool, known \in KnownLists :
          Resolve(src, imp, known)
    \/ ResolveReturn
    \/ \E files \in GraphFileLists, cap \in 1..MaxConcurrency : Build(files, cap)
    \/ \E k \in 1..MaxGraphFiles, readable \in BOOLEAN : ExtractImportsDone(k, readable)
    \/ \E k \in 1..MaxGraphFiles, readable \in BOOLEAN : ExtractExportsDone(k, readable)
    \/ BatchDone
    \/ BuildReturn
    \/ \E reverseLookup \in RankInputs : Rank(reverseLookup)
    \/ RankReturn

SpecGraph == InitGraph /\ [][NextGraph]_vars

\* buildDependencyGraph with its scheduling: while the function is under
\* way a read that was started ends, in success or in failure, and the
\* continuation of a settled Promise.all runs.  This is weak fairness of the
\* steps of the build, which has one enabled whenever it is under way.
buildSteps == build.pc = "reading" /\ build' # build

SpecGraphLive ==
    /\ InitGraph
    /\ [][NextGraph]_vars
    /\ []<>(build.pc # "reading") \/ []<><<buildSteps>>_vars

(***************************************************************************)
(* ContextIntel.calculateImpact                                            *)
(***************************************************************************)
MaxModified == 3

ModifiedPool ==
    << <<"a",".","t","s">>,
       <<"b",".","t","s">>,
       <<"c",".","t","s">>,
       <<"d",".","t","s">>,
       <<"e",".","t","s">> >>

\* analyzeImpact for the files of the pool, over a graph in which the n-th
\* of them has n - 1 direct dependents: the classification is a step
\* function of the count, 'small' for a file without dependents
analyzeImpact(file) ==
    LET n == CHOOSE k \in 1..Len(ModifiedPool) : ModifiedPool[k] = file
        radii == <<"small", "small", "medium", "large", "critical">>
    IN  [file |-> file, blastRadius |-> radii[n],
         dependents |-> [direct |-> dependentSet(n - 1)]]

\* analyzeMultipleImpacts: a Map from each path to its analysis
analyzeMultipleImpacts(paths) ==
    LET RECURSIVE put(_, _)
        put(n, acc) ==
            IF n > Len(paths) THEN acc
            ELSE put(n + 1, mapSet(acc, paths[n], analyzeImpact(paths[n])))
    IN  put(1, <<>>)

radiusOrder(radius) ==
    CASE radius = "small" -> 0
      [] radius = "medium" -> 1
      [] radius = "large" -> 2
      [] radius = "critical" -> 3

\* the comparison of the loop with != for >
aggregateUnordered(impacts) ==
    LET RECURSIVE loop(_, _, _)
        loop(n, maxRadius, totalAffected) ==
            IF n > Len(impacts)
            THEN [maxRadius |-> maxRadius, totalAffected |-> totalAffected]
            ELSE LET impact == impacts[n].value
                 IN  loop(n + 1,
                          IF radiusOrder(impact.blastRadius) # radiusOrder(maxRadius)
                          THEN impact.blastRadius ELSE maxRadius,
                          totalAffected + Len(impact.dependents.direct))
    IN  loop(1, "small", 0)

\* for (const [filepath, impact] of impacts.entries())
aggregate(impacts) ==
    LET RECURSIVE loop(_, _, _)
        loop(n, maxRadius, totalAffected) ==
            IF n > Len(impacts)
            THEN [maxRadius |-> maxRadius, totalAffected |-> totalAffected]
            ELSE LET impact == impacts[n].value
                 IN  loop(n + 1,
                          IF radiusOrder(impact.blastRadius) > radiusOrder(maxRadius)
                          THEN impact.blastRadius ELSE maxRadius,
                          totalAffected + Len(impact.dependents.direct))
    IN  loop(1, "small", 0)

\* the template literals, as their pieces
riskOf(maxRadius, totalAffected) ==
    IF maxRadius = "critical"
    THEN <<"CRITICAL: ", totalAffected, "+ files depend on changes">>
    ELSE IF maxRadius = "large"
    THEN <<"HIGH: ", totalAffected, " files may be affected">>
    ELSE IF maxRadius = "medium"
    THEN <<"MODERATE: ", totalAffected, " files depend on changes">>
    ELSE <<"Changes isolated to modified files">>

calculateImpact(modifiedFiles) ==
    IF Len(modifiedFiles) = 0
    THEN [blast_radius |-> "small", affected_files |-> 0,
          risk_assessment |-> <<"No changes detected">>]
    ELSE LET a == aggregate(analyzeMultipleImpacts(modifiedFiles))
         IN  [blast_radius |-> a.maxRadius, affected_files |-> a.totalAffected,
              risk_assessment |-> riskOf(a.maxRadius, a.totalAffected)]

\* the lists of up to n members of the pool, a file possibly more than once
RECURSIVE modifiedLists(_)
modifiedLists(n) ==
    IF n = 0 THEN {<<>>}
    ELSE modifiedLists(n - 1)
         \cup {Append(l, ModifiedPool[k]) : l \in modifiedLists(n - 1),
                                            k \in 1..Len(ModifiedPool)}

InitImpact ==
    /\ IntelIdle
    /\ EngineIdle /\ NormIdle /\ ParIdle /\ ShardIdle /\ GraphIdle /\ SemanticIdle

CalculateImpact(modifiedFiles) ==
    /\ ~impactCall.made
    /\ impactCall' = [made |-> TRUE, modifiedFiles |-> modifiedFiles,
                      impact |-> calculateImpact(modifiedFiles)]
    /\ UNCHANGED <<engineVars, normVars, parVars, shardVars, graphVars, semanticVars>>

\* the caller takes the summary
ImpactReturn ==
    /\ impactCall.made
    /\ impactCall' = NoImpactCall
    /\ UNCHANGED <<engineVars, normVars, parVars, shardVars, graphVars, semanticVars>>

NextImpact ==
    \/ \E l \in modifiedLists(MaxModified) : CalculateImpact(l)
    \/ ImpactReturn

SpecImpact == InitImpact /\ [][NextImpact]_vars

(***************************************************************************)
(* SemanticScorer.ensureModel and _initModel, one job of the event loop    *)
(* per step.  Calls of ensureModel (those of embed and rerank included)    *)
(* come from jobs of their own, which the caller's code queues at times    *)
(* of its choosing: a job queued before the continuation of _initModel     *)
(* ran, runs before the reaction the continuation queues.                  *)
(***************************************************************************)
MaxEnsure == 3

MaxInitFaults == 2

EntryPoints == {"ensureModel", "embed", "rerank"}

InitSemantic ==
    /\ SemanticIdle
    /\ EngineIdle /\ NormIdle /\ ParIdle /\ ShardIdle /\ GraphIdle /\ IntelIdle

\* the invocations of _initModel that are between their first await and
\* their end
loading == {i \in 1..Len(inits) : inits[i].stage = "loading"}

initFaults == Cardinality({i \in 1..Len(inits) : inits[i].stage = "failed"})

\* _initModel() up to its first await, and the promise .catch() makes of
\* it: an invocation that finds isInitializing set returns at once, and its
\* promise is fulfilled
initModel(s) ==
    IF s.isInitializing
    THEN [scorer |-> s, promise |-> [stage |-> "skipped", guard |-> "fulfilled"]]
    ELSE [scorer |-> [s EXCEPT !.isInitializing = TRUE],
          promise |-> [stage |-> "loading", guard |-> "pending"]]

\* ensureModel(): the scorer and the promises after it, and the promise it
\* returns
ensureModel(s, promises) ==
    IF s.initPromise # 0
    THEN [scorer |-> s, promises |-> promises, follows |-> s.initPromise,
          started |-> FALSE]
    ELSE IF s.pipeline
    THEN [scorer |-> [s EXCEPT !.initPromise = Len(promises) + 1],
          promises |-> Append(promises, [stage |-> "none", guard |-> "fulfilled"]),
          follows |-> Len(promises) + 1,
          started |-> FALSE]
    ELSE LET r == initModel(s)
         IN  [scorer |-> [r.scorer EXCEPT !.initPromise = Len(promises) + 1],
              promises |-> Append(promises, r.promise),
              follows |-> Len(promises) + 1,
              started |-> r.promise.stage = "loading"]

\* a call of ensureModel, directly or as the first statement of embed or
\* rerank.  As history the call keeps what it found: the invocation of
\* _initModel under way, and whether the model was loaded
EnsureModel(entry) ==
    /\ Len(ensureCalls) < MaxEnsure
    /\ LET r == ensureModel(scorer, inits)
       IN  /\ scorer' = r.scorer
           /\ inits' = r.promises
           /\ ensureCalls' = Append(ensureCalls,
                 [entry |-> entry, follows |-> r.follows, status |-> "waiting",
                  started |-> r.started,
                  underWay |-> loading,
                  loaded |-> scorer.pipeline,
                  pipeline |-> FALSE])
    /\ UNCHANGED <<engineVars, normVars, parVars, shardVars, graphVars, intelVars>>

\* this.pipeline = await pipeline(...) and the end of the try block
InitSucceeds(i) ==
    /\ i \in loading
    /\ scorer' = [scorer EXCEPT !.pipeline = TRUE]
    /\ inits' = [inits EXCEPT ![i] = [stage |-> "loaded", guard |-> "fulfilled"]]
    /\ UNCHANGED <<ensureCalls, engineVars, normVars, parVars, shardVars, graphVars,
                   intelVars>>

\* an await of the try block throws: the catch block of _initModel
InitFails(i) ==
    /\ i \in loading
    /\ initFaults < MaxInitFaults
    /\ scorer' = [scorer EXCEPT !.isInitializing = FALSE, !.initPromise = 0]
    /\ inits' = [inits EXCEPT ![i].stage = "failed"]
    /\ UNCHANGED <<ensureCalls, engineVars, normVars, parVars, shardVars, graphVars,
                   intelVars>>

\* the reaction of .catch() in ensureModel to the rejection of _initModel()
CatchHandler(i) ==
    /\ i \in 1..Len(inits)
    /\ inits[i].stage = "failed"
    /\ inits[i].guard = "pending"
    /\ scorer' = [scorer EXCEPT !.initPromise = 0]
    /\ inits' = [inits EXCEPT ![i].guard = "rejected"]
    /\ UNCHANGED <<ensureCalls, engineVars, normVars, parVars, shardVars, graphVars,
                   intelVars>>

\* the promise a call follows has settled: the call's own promise settles
\* the same way and the caller goes on, embed and rerank to this.pipeline
Settle(c) ==
    /\ c \in 1..Len(ensureCalls)
    /\ ensureCalls[c].status = "waiting"
    /\ inits[ensureCalls[c].follows].guard # "pending"
    /\ ensureCalls' = [ensureCalls EXCEPT
                         ![c].status = inits[ensureCalls[c].follows].guard,
                         ![c].pipeline = scorer.pipeline]
    /\ UNCHANGED <<scorer, inits, engineVars, normVars, parVars, shardVars, graphVars,
                   intelVars>>

NextSemantic ==
    \/ \E entry \in EntryPoints : EnsureModel(entry)
    \/ \E i \in 1..MaxEnsure : InitSucceeds(i)
    \/ \E i \in 1..MaxEnsure : InitFails(i)
    \/ \E i \in 1..MaxEnsure : CatchHandler(i)
    \/ \E c \in 1..MaxEnsure : Settle(c)

SpecSemantic == InitSemantic /\ [][NextSemantic]_vars

(***************************************************************************)
(* Properties of ParallelMantic                                            *)
(***************************************************************************)
pathsAndScores(rs) == {[file |-> rs[i].file, score |-> rs[i].score] : i \in 1..Len(rs)}

\* C1: for every partition into contiguous shards, every non-empty query and
\* every limit k >= 1, the merge of the shards' search(q, k) outputs holds the
\* same paths with the same scores as search(q, k) over the whole list, and
\* no result of the whole list is missing from its shard's output.
C1_ShardedEqualsSingle ==
    shardCall.stage = "merged" =>
        /\ pathsAndScores(shardCall.merged) = pathsAndScores(shardCall.single)
        /\ \A i \in 1..Len(shardCall.single) :
              \E j \in 1..Len(shards) :
                  \E n \in 1..Len(shardCall.replies[j]) :
                      shardCall.replies[j][n] = shardCall.single[i]

\* the merged list is also the same list, in the same order
ShardedSameOrder == shardCall.stage = "merged" => shardCall.merged = shardCall.single

\* a query over two or more shards, one of which holds more records with a
\* positive score than the limit, answered with results of two shards
C1_Witness ==
    /\ shardCall.stage = "merged"
    /\ Len(shards) >= 2
    /\ \E j \in 1..Len(shards) :
          Len(scoredResults(buildIndex(shards[j]), shardCall.query)) > shardCall.limit
    /\ Len(shardCall.merged) = shardCall.limit
    /\ shardCall.limit >= 2
    /\ \E j1, j2 \in 1..Len(shards) :
          /\ j1 # j2
          /\ \E n \in 1..Len(shards[j1]) : shards[j1][n] = shardCall.merged[1].file
          /\ \E n \in 1..Len(shards[j2]) : shards[j2][n] = shardCall.merged[2].file

\* C2: when a worker fails while it handles a search, by an exception in its
\* handler or by an error event, the call is not resolved with a result list.
C2_WorkerFailureRejects ==
    \A c \in 1..Len(calls) :
        (calls[c].threw # {} \/ calls[c].errored # {}) => calls[c].status # "resolved"

\* the error-event half of C2 alone
ErrorEventRejects ==
    \A c \in 1..Len(calls) : calls[c].errored # {} => calls[c].status = "rejected"

\* what every worker of a call replies, in the order of this.workers
expectedReplies(call) ==
    [i \in 1..Len(call.workers) |->
        IF call.workers[i] \in call.threw THEN <<>>
        ELSE workerReply(threads[call.workers[i]].chunk,
                         [query |-> call.query, limit |-> call.limit])]

\* the promises of the call were resolved by the replies to its own tasks
ownReplies(c) ==
    \A i \in 1..Len(calls[c].promises) : calls[c].promises[i].answers = c

C5_TerminatedRefusesSearch ==
    terminated =>
        /\ workers = <<>>
        /\ ~active
        /\ \A c \in 1..Len(calls) :
              (calls[c].issuedAfterTerminate /\ calls[c].query # <<>>)
                  => calls[c].status = "rejected"

\* the lifecycle half of C5 alone: terminate leaves no worker held and active
\* false, and nothing sets active again
TerminatedReleases == terminated => (workers = <<>> /\ ~active)

ActiveNeverReturns == [][~active => ~active']_vars

(***************************************************************************)
(* Properties of search and scoreEntry                                     *)
(***************************************************************************)
\* The early return of scoreEntry an entry takes for a query: 1 (exact file
\* name), 2 (exact normalized file name), 3 (file name without extension),
\* or 0 when it takes none of them
matchTier(entry, query) ==
    LET fullQueryLower == queryLowerOf(query)
        normalizedQuery == toLowerCase(normalizeSeparators(queryTrimmedOf(query)))
    IN  IF entry.fileNameLower = fullQueryLower THEN 1
        ELSE IF entry.fileNameNormalized = normalizedQuery THEN 2
        ELSE IF toLowerCase(stripLastExt(entry.fileName)) = stripLastExt(fullQueryLower) THEN 3
        ELSE 0

\* The entry is disqualified by the extension filter for the query
extensionDiffers(entry, query) ==
    LET requestedExt == requestedExtension(queryTrimmedOf(query))
    IN  requestedExt # <<>> /\ entry.ext # requestedExt

\* The entry receives the single-term directory boost for the query
boosted(entry, query) ==
    directoryBoost(entry, termsOf(query), queryTrimmedOf(query)) > 0

Searched == engineCall.made /\ termsOf(engineCall.query) # <<>>

Entries == {index[i] : i \in 1..Len(index)}

\* C3: search returns only indexed records, each with a positive integer
\* score, at most `limit` of them, by score descending and, among equal
\* scores, by path length ascending.
C3_SearchContract ==
    engineCall.made =>
        LET r == engineCall.results
        IN  /\ Len(r) <= engineCall.limit
            /\ \A i \in 1..Len(r) :
                  /\ r[i].score \in Nat \ {0}
                  /\ \E e \in Entries : e.original = r[i].file
            /\ \A i \in 1..(Len(r) - 1) :
                  \/ r[i].score > r[i + 1].score
                  \/ /\ r[i].score = r[i + 1].score
                     /\ Len(r[i].file) <= Len(r[i + 1].file)

\* a search over three records that returns two of them, tied on the score,
\* the shorter path first although it was indexed later
C3_Witness ==
    /\ engineCall.made
    /\ Len(index) = 3
    /\ engineCall.limit = 2
    /\ Len(engineCall.results) = 2
    /\ engineCall.results[1].score = engineCall.results[2].score
    /\ Len(engineCall.results[1].file) < Len(engineCall.results[2].file)
    /\ \E i, j \in 1..Len(index) :
          /\ i < j
          /\ index[j].original = engineCall.results[1].file
          /\ index[i].original = engineCall.results[2].file

\* C6: when the trimmed query equals a record's file name case-insensitively,
\* scoreEntry returns 10000 for that record.
C6_ExactFileNameScore ==
    Searched =>
        \A e \in Entries :
            toLowerCase(queryTrimmedOf(engineCall.query)) = e.fileNameLower
                => scoreFor(e, engineCall.query) = 10000

\* C7: when the query holds a recognized extension and the record's
\* extension differs, the record scores 0 and search does not return it.
C7_ExtensionDisqualifies ==
    Searched =>
        \A e \in Entries :
            extensionDiffers(e, engineCall.query)
                => /\ scoreFor(e, engineCall.query) = 0
                   /\ \A i \in 1..Len(engineCall.results) :
                          engineCall.results[i].file # e.original

\* C8: appending a term that occurs in the record's path never lowers the
\* record's score, and appending one that does not occur never raises it.
C8_Monotone ==
    Searched =>
        \A e \in Entries, t \in TermPool :
            LET longer == engineCall.query \o <<" ">> \o t
            IN  IF includes(e.normalized, t)
                THEN scoreFor(e, longer) >= scoreFor(e, engineCall.query)
                ELSE scoreFor(e, longer) <= scoreFor(e, engineCall.query)

\* a record scored by ordinary accumulation only: no early return, no boost
ordinary(entry, query) ==
    /\ matchTier(entry, query) = 0
    /\ ~boosted(entry, query)

C10_NormalizeFolds ==
    /\ passes >= 1 => normalizeSeparators(text) = text
    /\ (passes >= 1 /\ given \in {ScriptControllerCamel, ScriptControllerSnake,
                                  ScriptControllerKebab})
           => text = ScriptControllerSpaced

\* the idempotence half of C10 alone
NormalizeIdempotent == passes >= 1 => normalizeSeparators(text) = text

\* the '_' and '-' half of the fold alone
NormalizeFoldsSeparators ==
    (passes >= 1 /\ given \in {ScriptControllerSnake, ScriptControllerKebab})
        => text = ScriptControllerSpaced

(***************************************************************************)
(* Test-named files against their non-test namesakes                       *)
(***************************************************************************)
baseNameOf(entry) == splitChars(entry.fileNameLower, {"."})[1]

positionOf(file, results) ==
    LET hits == {i \in 1..Len(results) : results[i].file = file}
    IN  IF hits = {} THEN 0 ELSE CHOOSE i \in hits : \A j \in hits : i <= j

ahead(e, t, results) ==
    /\ positionOf(t, results) > 0 => positionOf(e, results) > 0
    /\ positionOf(e, results) > 0 =>
          \/ positionOf(t, results) = 0
          \/ positionOf(e, results) < positionOf(t, results)

RouterIndex == SubSeq(BaseNamePathPool, 1, 3)

\* the scenario alone: over [a/router.ts, a/router.test.ts, b/Router.tsx] the
\* query "router" returns a/router.ts and b/Router.tsx with positive scores,
\* both ahead of a/router.test.ts
RouterScenario ==
    ( /\ engineCall.made
      /\ index = buildIndex(RouterIndex)
      /\ engineCall.query = <<"r","o","u","t","e","r">>
      /\ engineCall.limit >= 2 ) =>
        LET r == engineCall.results
        IN  \A f \in {RouterIndex[1], RouterIndex[3]} :
               /\ positionOf(f, r) > 0
               /\ r[positionOf(f, r)].score > 0
               /\ ahead(f, RouterIndex[2], r)

\* C11: over [a/router.ts, a/router.test.ts, b/Router.tsx] the query "router"
\* returns a/router.ts and b/Router.tsx with positive scores, both ahead of
\* a/router.test.ts; and for every query that is the base name of a test-named
\* record, the non-test records with that base name come ahead of it in the
\* returned list.
C11_TestFileRanksBelow ==
    /\ RouterScenario
    /\ Searched =>
          \A e \in Entries, t \in Entries :
              ( /\ TEST_PATTERNS(t.original)
                /\ ~TEST_PATTERNS(e.original)
                /\ baseNameOf(e) = queryLowerOf(engineCall.query)
                /\ baseNameOf(t) = queryLowerOf(engineCall.query)
                /\ engineCall.limit >= Len(index) ) =>
                    ahead(e.original, t.original, engineCall.results)

(***************************************************************************)
(* Queries without terms                                                   *)
(***************************************************************************)
blank(query) == termsOf(query) = <<>>

\* what a search call may not touch in the orchestrator: the worker array,
\* the flag, and each worker's chunk and liveness
workersUnchanged ==
    /\ workers' = workers
    /\ active' = active
    /\ allFiles' = allFiles
    /\ Len(threads') = Len(threads)
    /\ \A t \in 1..Len(threads) :
          /\ threads'[t].chunk = threads[t].chunk
          /\ threads'[t].alive = threads[t].alive

\* C12: a search whose query is empty or has no terms after trimming returns
\* the empty list and never fails, in ManticEngine.search and in
\* ParallelMantic.search; the call leaves the index, the worker array and
\* each worker's chunk as they were.
C12_BlankQueryReturnsEmpty ==
    [][ /\ (engineCall'.made /\ ~engineCall.made /\ blank(engineCall'.query)) =>
             /\ engineCall'.results = <<>>
             /\ index' = index
        /\ \A c \in 1..Len(calls') :
             blank(calls'[c].query) =>
                /\ calls'[c].status # "rejected"
                /\ calls'[c].status = "resolved" => calls'[c].result = <<>>
                /\ (c > Len(calls) \/ calls'[c] # calls[c]) => workersUnchanged
      ]_vars

\* a whitespace-only query answered with the empty list by an engine whose
\* index is not empty, and by an orchestrator after its two workers, each
\* with a chunk of its own, replied
C12_Witness ==
    /\ engineCall.made /\ engineCall.query = <<" ">> /\ index # <<>>
    /\ engineCall.results = <<>>
    /\ \E c \in 1..Len(calls) :
          /\ calls[c].query = <<" ">>
          /\ calls[c].status = "resolved"
          /\ calls[c].result = <<>>
          /\ Len(calls[c].promises) >= 2
          /\ \A i \in 1..Len(calls[c].promises) : calls[c].promises[i].answers = c

(***************************************************************************)
(* resolveImportPath                                                       *)
(***************************************************************************)
bare(importSource) ==
    ~startsWith(importSource, <<".">>) /\ ~startsWith(importSource, <<"@", "/">>)

known(path, files) == \E i \in 1..Len(files) : files[i] = path

ProbeOrder ==
    << <<".","t","s">>,
       <<".","t","s","x">>,
       <<".","j","s">>,
       <<".","j","s","x">>,
       <<".","m","j","s">>,
       <<>>,
       <<"/","i","n","d","e","x",".","t","s">>,
       <<"/","i","n","d","e","x",".","t","s","x">>,
       <<"/","i","n","d","e","x",".","j","s">>,
       <<"/","i","n","d","e","x",".","j","s","x">> >>

firstProbe(candidatePath, files) ==
    LET hits == {n \in 1..Len(ProbeOrder) : known(candidatePath \o ProbeOrder[n], files)}
    IN  IF hits = {} THEN null
        ELSE candidatePath \o ProbeOrder[CHOOSE n \in hits : \A m \in hits : n <= m]

\* C14: for a specifier that starts with '.', resolveImportPath returns the
\* first of candidate + .ts, .tsx, .js, .jsx, .mjs, nothing, /index.ts,
\* /index.tsx, /index.js, /index.jsx that is a known file, and null when none
\* of them is.
C14_ProbeOrder ==
    (resolveCall.made /\ startsWith(resolveCall.importSource, <<".">>)) =>
        resolveCall.result =
            firstProbe(candidatePathOf(resolveCall.importSource, resolveCall.importerPath),
                       resolveCall.allFiles)

\* ./auth imported next to auth (no extension) and auth.ts, listed in this
\* order: auth.ts is the result
C14_Witness ==
    /\ resolveCall.made
    /\ resolveCall.importSource = <<".","/","a","u","t","h">>
    /\ resolveCall.importerPath = <<"s","r","c","/","u","t","i","l","s","/","l","o","g","i","n",".","t","s">>
    /\ resolveCall.allFiles = << <<"s","r","c","/","u","t","i","l","s","/","a","u","t","h">>, <<"s","r","c","/","u","t","i","l","s","/","a","u","t","h",".","t","s">> >>
    /\ resolveCall.result = <<"s","r","c","/","u","t","i","l","s","/","a","u","t","h",".","t","s">>

\* ../utils/auth with auth.ts and auth/index.ts both known: auth.ts wins
FileBeforeIndex ==
    ( /\ resolveCall.made
      /\ resolveCall.importSource = <<".",".","/","u","t","i","l","s","/","a","u","t","h">>
      /\ resolveCall.importerPath = <<"s","r","c","/","c","o","m","p","o","n","e","n","t","s","/","B","u","t","t","o","n",".","t","s","x">>
      /\ known(<<"s","r","c","/","u","t","i","l","s","/","a","u","t","h",".","t","s">>, resolveCall.allFiles)
      /\ known(<<"s","r","c","/","u","t","i","l","s","/","a","u","t","h","/","i","n","d","e","x",".","t","s">>, resolveCall.allFiles) ) =>
        resolveCall.result = <<"s","r","c","/","u","t","i","l","s","/","a","u","t","h",".","t","s">>

\* C15: a specifier '@/rest' resolves to the first known probe of src/rest,
\* whatever directory the importing file is in.
C15_AliasIsRootRelative ==
    (resolveCall.made /\ startsWith(resolveCall.importSource, <<"@", "/">>)) =>
        resolveCall.result =
            firstProbe(<<"s", "r", "c", "/">>
                          \o SubSeq(resolveCall.importSource, 3, Len(resolveCall.importSource)),
                       resolveCall.allFiles)

\* the alias does resolve as the specification says for an importer that
\* lies in the root directory
AliasFromRoot ==
    ( /\ resolveCall.made
      /\ startsWith(resolveCall.importSource, <<"@", "/">>)
      /\ dirname(resolveCall.importerPath) = <<".">> ) =>
        resolveCall.result =
            firstProbe(<<"s", "r", "c", "/">>
                          \o SubSeq(resolveCall.importSource, 3, Len(resolveCall.importSource)),
                       resolveCall.allFiles)

(***************************************************************************)
(* buildDependencyGraph                                                    *)
(***************************************************************************)
Built == build.pc = "returned"

members(l) == {l[i] : i \in 1..Len(l)}

importsResolvingTo(node, target, files) ==
    {k \in 1..Len(node.imports) :
        resolveImportPath(node.imports[k].source, node.path, files) = target}

\* C16: in a returned graph every key of reverseLookup is a scanned path, and
\* every member of its set is a scanned file with a node, one of whose
\* imports resolves to the key; no key is without a member, so an import that
\* does not resolve to a scanned file adds neither a key nor a member.
C16_ReverseLookupInsideScan ==
    Built =>
        \A n \in 1..Len(build.graph.reverseLookup) :
            LET entry == build.graph.reverseLookup[n]
            IN  /\ known(entry.key, build.files)
                /\ entry.value # <<>>
                /\ \A f \in members(entry.value) :
                      /\ known(f, build.files)
                      /\ mapHas(build.graph.nodes, f)
                      /\ importsResolvingTo(mapGet(build.graph.nodes, f), entry.key,
                                            build.files) # {}

\* src/app.ts scanned without src/types.ts: its imports of react (external),
\* of @/utils/auth and of ./types (unresolved) leave no trace, its import of
\* ./utils/auth does
C16_Witness ==
    /\ Built
    /\ build.failed = {}
    /\ members(build.files) = {<<"s","r","c","/","a","p","p",".","t","s">>, <<"s","r","c","/","u","t","i","l","s","/","a","u","t","h",".","t","s">>}
    /\ build.graph.reverseLookup = << [key |-> <<"s","r","c","/","u","t","i","l","s","/","a","u","t","h",".","t","s">>, value |-> <<<<"s","r","c","/","a","p","p",".","t","s">>>>] >>

\* the scanned files in the order of the pool
canonical(files) ==
    LET Scanned(f) == known(f, files)
    IN  SelectSeq(GraphPathPool, Scanned)

\* C17: in a returned graph the dependents of every node are, as a set, the
\* reverseLookup set of its path (empty without one), and f is among them
\* exactly if an import of f resolves to the node's path; resolving against
\* the file list in any one fixed order gives the same membership.
C17_DependentsMirrorReverseLookup ==
    Built =>
        \A n \in 1..Len(build.graph.nodes) :
            LET node == build.graph.nodes[n].value
            IN  /\ members(node.dependents) =
                      (IF mapHas(build.graph.reverseLookup, node.path)
                       THEN members(mapGet(build.graph.reverseLookup, node.path))
                       ELSE {})
                /\ \A m \in 1..Len(build.graph.nodes) :
                      LET f == build.graph.nodes[m].value
                      IN  f.path \in members(node.dependents)
                             <=> importsResolvingTo(f, node.path,
                                                    canonical(build.files)) # {}

\* the files given in the reverse of the pool's order, nothing failed:
\* src/types.ts has the two dependents src/utils/auth.ts and src/app.ts
C17_Witness ==
    /\ Built
    /\ build.failed = {}
    /\ build.files = << <<"s","r","c","/","t","y","p","e","s",".","t","s">>, <<"s","r","c","/","u","t","i","l","s","/","a","u","t","h",".","t","s">>, <<"s","r","c","/","a","p","p",".","t","s">> >>
    /\ members(mapGet(build.graph.nodes, <<"s","r","c","/","t","y","p","e","s",".","t","s">>).dependents) = {<<"s","r","c","/","u","t","i","l","s","/","a","u","t","h",".","t","s">>, <<"s","r","c","/","a","p","p",".","t","s">>}
    /\ mapGet(build.graph.nodes, <<"s","r","c","/","a","p","p",".","t","s">>).dependents = <<>>

\* what each extraction yields for a file of the call, given the reads that
\* failed
yieldOf(filepath) ==
    [filepath |-> filepath,
     imports |-> extractImports(filepath, [file |-> filepath, read |-> "imports"] \notin build.failed),
     exports |-> extractExports(filepath, [file |-> filepath, read |-> "exports"] \notin build.failed)]

\* C19: the returned graph is the one a single pass over the whole file list
\* builds from what each extraction yielded, whatever maxConcurrency >= 1 was
\* given and in whatever order the reads of a batch completed (nodes, imports,
\* exports, dependents and reverseLookup, even in their enumeration order).
C19_BatchesNotObservable ==
    Built =>
        build.graph =
            graphOf(setNodes(<<>>, [k \in 1..Len(build.files) |-> yieldOf(build.files[k])]),
                    build.files)

\* three files in two batches, a read of a later file of a batch completed
\* before the reads of an earlier one
C19_Witness ==
    /\ Built
    /\ Len(build.files) = 3
    /\ build.maxConcurrency = 2
    /\ build.overtaken
    /\ Len(build.graph.nodes) = 3
    /\ build.graph.reverseLookup # <<>>

\* C20 as stated: a file one of whose reads failed has no imports and no
\* exports in its node.
C20_FailedReadEmptiesFile ==
    Built =>
        \A f \in {x.file : x \in build.failed} :
            /\ mapHas(build.graph.nodes, f)
            /\ mapGet(build.graph.nodes, f).imports = <<>>
            /\ mapGet(build.graph.nodes, f).exports = <<>>

\* C20 amended: every scanned file has a node; the node has no imports when
\* the read of extractImports failed and no exports when the read of
\* extractExports failed, and what the other extraction found otherwise; the
\* members of the reverse-lookup sets are what the imports kept in the nodes
\* resolve to.  (No failed read ends the call: it returns in every run.)
C20_FailedReadFindsNothing ==
    Built =>
        /\ \A i \in 1..Len(build.files) :
              LET f == build.files[i]
              IN  /\ mapHas(build.graph.nodes, f)
                  /\ mapGet(build.graph.nodes, f).imports =
                        (IF [file |-> f, read |-> "imports"] \in build.failed
                         THEN <<>> ELSE Contents(f).imports)
                  /\ mapGet(build.graph.nodes, f).exports =
                        (IF [file |-> f, read |-> "exports"] \in build.failed
                         THEN <<>> ELSE Contents(f).exports)
        /\ \A i, j \in 1..Len(build.files) :
              LET f == build.files[i]
                  g == build.files[j]
                  kept == IF [file |-> f, read |-> "imports"] \in build.failed
                          THEN <<>> ELSE Contents(f).imports
              IN  ( /\ mapHas(build.graph.reverseLookup, g)
                    /\ f \in members(mapGet(build.graph.reverseLookup, g)) )
                  <=> \E k \in 1..Len(kept) :
                         resolveImportPath(kept[k].source, f, build.files) = g

\* the read of extractExports failed for src/app.ts after its imports were
\* read: the node keeps the four imports, has no exports, and src/app.ts is
\* a dependent of src/utils/auth.ts
C20_Witness ==
    /\ Built
    /\ build.failed = {[file |-> <<"s","r","c","/","a","p","p",".","t","s">>, read |-> "exports"]}
    /\ Len(mapGet(build.graph.nodes, <<"s","r","c","/","a","p","p",".","t","s">>).imports) = 4
    /\ mapGet(build.graph.nodes, <<"s","r","c","/","a","p","p",".","t","s">>).exports = <<>>
    /\ mapHas(build.graph.reverseLookup, <<"s","r","c","/","u","t","i","l","s","/","a","u","t","h",".","t","s">>)
    /\ <<"s","r","c","/","a","p","p",".","t","s">> \in members(mapGet(build.graph.reverseLookup, <<"s","r","c","/","u","t","i","l","s","/","a","u","t","h",".","t","s">>))

(***************************************************************************)
(* calculateImportRanks                                                    *)
(***************************************************************************)
\* round(100 * count / maxDependents) in exact arithmetic, a half going up
exactRank(count, maxDependents) == (200 * count + maxDependents) \div (2 * maxDependents)

largest(reverseLookup) == lastOf({Len(reverseLookup[n].value) : n \in 1..Len(reverseLookup)})

\* C18: calculateImportRanks returns a rank for exactly the keys of
\* reverseLookup, equal to 100 * |dependents| / max |dependents| rounded to
\* the nearest integer; every rank is an integer in 0..100, a key with the
\* largest set has rank 100, and an empty reverseLookup gives an empty map.
C18_RankIsRoundedShare ==
    rankCall.made =>
        /\ Len(rankCall.ranks) = Len(rankCall.reverseLookup)
        /\ \A n \in 1..Len(rankCall.ranks) :
              /\ rankCall.ranks[n].key = rankCall.reverseLookup[n].key
              /\ rankCall.ranks[n].value \in 0..100
              /\ rankCall.ranks[n].value =
                    exactRank(Len(rankCall.reverseLookup[n].value),
                              largest(rankCall.reverseLookup))

\* what does hold: the keys are those of reverseLookup, every rank is an
\* integer in 0..100, the largest set has rank 100, 1 dependent against 3
\* has rank 33, no entry gives no rank
RanksInRange ==
    rankCall.made =>
        /\ Len(rankCall.ranks) = Len(rankCall.reverseLookup)
        /\ \A n \in 1..Len(rankCall.ranks) :
              /\ rankCall.ranks[n].key = rankCall.reverseLookup[n].key
              /\ rankCall.ranks[n].value \in 0..100
              /\ Len(rankCall.reverseLookup[n].value) = largest(rankCall.reverseLookup)
                    => rankCall.ranks[n].value = 100
              /\ ( /\ Len(rankCall.reverseLookup[n].value) = 1
                   /\ largest(rankCall.reverseLookup) = 3 )
                    => rankCall.ranks[n].value = 33

(***************************************************************************)
(* The shards of initWorkers                                               *)
(***************************************************************************)
\* C21: every worker ParallelMantic spawned was given at least one file, and
\* an empty file list spawns no worker.
C21_NoEmptyShard ==
    /\ \A t \in 1..Len(threads) : threads[t].chunk # <<>>
    /\ allFiles = <<>> => threads = <<>>

\* one file on a machine that reports no CPU (three workers wanted): a
\* single worker, which holds the file and has answered a search
C21_Witness ==
    /\ Len(allFiles) = 1
    /\ cpuCount = 0
    /\ Len(threads) = 1
    /\ threads[1].chunk = allFiles
    /\ \E c \in 1..Len(calls) : calls[c].status = "resolved" /\ calls[c].result # <<>>

\* the chunks of the workers one after the other
concatenated ==
    LET RECURSIVE cat(_)
        cat(t) == IF t > Len(threads) THEN <<>> ELSE threads[t].chunk \o cat(t + 1)
    IN  cat(1)

\* C24: the chunks of the workers, in worker order, are contiguous slices
\* that together give back the input list, no file in two of them, and
\* there are at most max(2, cpuCount - 1) workers, cpuCount being
\* os.cpus().length or 4 when that is 0.
C24_ShardsPartitionInput ==
    /\ concatenated = allFiles
    /\ \A t, u \in 1..Len(threads) :
          t # u => \A i \in 1..Len(threads[t].chunk), j \in 1..Len(threads[u].chunk) :
                      threads[t].chunk[i] # threads[u].chunk[j]
    /\ Len(threads) <= max(2, (IF cpuCount = 0 THEN 4 ELSE cpuCount) - 1)

\* three files over two workers, two files and one
C24_Witness ==
    /\ Len(allFiles) = 3
    /\ Len(threads) = 2
    /\ Len(threads[1].chunk) = 2
    /\ Len(threads[2].chunk) = 1
    /\ \E c \in 1..Len(calls) : calls[c].status = "resolved"

(***************************************************************************)
(* Overlapping search calls                                                *)
(***************************************************************************)
\* C22: every search call resolves with the merge of what its workers
\* computed for its own query and limit, and each of its promises is
\* resolved by the reply to its own task, also when another call was issued
\* before every worker had answered.
C22_RepliesReachOwnCall ==
    \A c \in 1..Len(calls) :
        /\ \A i \in 1..Len(calls[c].promises) :
              calls[c].promises[i].state = "resolved" => calls[c].promises[i].answers = c
        /\ calls[c].status = "resolved" =>
              calls[c].result = mergeResults(expectedReplies(calls[c]), calls[c].limit)

(***************************************************************************)
(* Search calls settle                                                     *)
(***************************************************************************)
\* C23: every search call that is pending is eventually resolved or
\* rejected, also when terminate() runs or a worker ends while it is pending.
C23_CallsSettle ==
    \A c \in 1..MaxCalls :
        (Len(calls) >= c /\ Pending(c)) ~> (Len(calls) >= c /\ ~Pending(c))

\* the calls that neither a worker failure nor terminate() has touched do
\* settle
UntouchedCallsSettle ==
    \A c \in 1..MaxCalls :
        (Len(calls) >= c /\ Pending(c))
            ~> (\/ Len(calls) >= c /\ ~Pending(c)
                \/ terminated
                \/ \E t \in 1..Len(threads) : ~threads[t].alive)

(***************************************************************************)
(* rankFiles                                                               *)
(***************************************************************************)
\* C25: every rankFiles call ranks the list it was given: each returned
\* path is one of the call's files, and the index the call searched is the
\* index of those files.
C25_RanksTheGivenFiles ==
    engineCall.made =>
        /\ \A i \in 1..Len(engineCall.results) :
              known(engineCall.results[i].path, engineCall.files)
        /\ index = buildIndex(engineCall.files)

\* a call with a list of another length than the one before does rank its
\* own files
OtherLengthIsReindexed ==
    [][ (engineCall'.made /\ ~engineCall.made /\ Len(engineCall'.files) # Len(index))
            => index' = buildIndex(engineCall'.files) ]_vars

(***************************************************************************)
(* The reads of buildDependencyGraph                                       *)
(***************************************************************************)
\* the entries of the batch whose read has not ended
outstanding == {k \in 1..Len(build.stage) : build.stage[k] # "done"}

boundedReads ==
    /\ build.pc = "reading" =>
          /\ Cardinality(outstanding) <= build.maxConcurrency
          /\ Len(build.stage) <= build.maxConcurrency
          \* the batches before this one have finished: their files have
          \* their nodes, and the batch is the slice that follows them
          /\ Len(build.nodes) = build.i
          /\ \A k \in 1..Len(build.stage) :
                build.results[k].filepath = build.files[build.i + k]
          \* one read at a time per file: exports only after imports
          /\ \A k \in 1..Len(build.stage) :
                build.stage[k] = "imports" => build.results[k].exports = <<>>
    /\ Built =>
          /\ Len(build.graph.nodes) = Cardinality(members(build.files))
          /\ \A f \in members(build.files) : mapHas(build.graph.nodes, f)

\* C26: while buildDependencyGraph runs at most maxConcurrency files are
\* being read, a batch holds the files after those of the finished batches,
\* a file's read for exports starts after its read for imports has ended;
\* and every call returns, with one node per path.
C26_ReadsAreBounded ==
    /\ []boundedReads
    /\ (build.pc = "reading") ~> Built

\* the second batch of a call over three files with at most one read at a
\* time, the imports of its file read
C26_Witness ==
    /\ build.pc = "reading"
    /\ Len(build.files) = 3
    /\ build.maxConcurrency = 1
    /\ build.i = 1
    /\ build.stage = <<"exports">>

(***************************************************************************)
(* Specifiers whose last segment has a dot                                 *)
(***************************************************************************)
\* a relative specifier that ends in a dotted suffix which is not one of
\* the probed extensions
dottedName(importSource) ==
    /\ startsWith(importSource, <<".">>)
    /\ extname(importSource) # <<>>
    /\ \A e \in 1..Len(extensions) : extensions[e] # extname(importSource)

\* the specifier resolved against the importer's directory, suffix kept
fullName(call) == join(dirname(call.importerPath), call.importSource)

\* C28: a relative specifier whose last segment has a dot that is no source
\* extension resolves to the known file of that full name plus a probed
\* extension, and to no file of another name.
C28_DottedNameKeepsItsSuffix ==
    (resolveCall.made /\ dottedName(resolveCall.importSource)) =>
        /\ resolveCall.result # null =>
              startsWith(resolveCall.result, fullName(resolveCall))
        /\ known(fullName(resolveCall) \o <<".","t","s">>, resolveCall.allFiles) =>
              resolveCall.result = fullName(resolveCall) \o <<".","t","s">>

(***************************************************************************)
(* The component chosen for a term of a path query                         *)
(***************************************************************************)
boundaryMatch(part, term) ==
    \/ startsWith(part, term \o <<"_">>)
    \/ startsWith(part, term \o <<"-">>)
    \/ startsWith(part, term \o <<".">>)

\* the components a pass may look at
eligible(c) == {i \in 1..Len(index[1].pathParts) : i > c.after}

exactAt(c) == {i \in eligible(c) : index[1].pathParts[i] = c.term}

boundaryAt(c) == {i \in eligible(c) : boundaryMatch(index[1].pathParts[i], c.term)}

substringAt(c) ==
    {i \in eligible(c) : Len(c.term) >= 4 /\ includes(index[1].pathParts[i], c.term)}

termPasses(call) == {call.chosen[k] : k \in 1..Len(call.chosen)}

\* C27: a term is matched only against components after the previous match;
\* the component chosen is an exact one if there is one, otherwise a
\* prefix/boundary match if there is one, otherwise a substring match, for
\* terms of four characters and more only.
C27_ExactThenBoundaryThenSubstring ==
    engineCall.made =>
        \A c \in termPasses(engineCall) :
            /\ c.matchIndex # 0 => c.matchIndex \in eligible(c)
            /\ IF exactAt(c) # {} THEN c.matchIndex \in exactAt(c)
               ELSE IF boundaryAt(c) # {} THEN c.matchIndex \in boundaryAt(c)
               ELSE IF substringAt(c) # {} THEN c.matchIndex \in substringAt(c)
               ELSE c.matchIndex = 0

\* what the loop does choose: the first exact component, and without one
\* the first component that is a boundary match or a substring match
FirstExactElseFirstCandidate ==
    engineCall.made =>
        \A c \in termPasses(engineCall) :
            LET candidates == boundaryAt(c) \cup substringAt(c)
                first(S) == CHOOSE i \in S : \A j \in S : i <= j
            IN  IF exactAt(c) # {} THEN c.matchIndex = first(exactAt(c)) /\ c.isExactMatch
                ELSE IF candidates # {} THEN c.matchIndex = first(candidates)
                ELSE c.matchIndex = 0

(***************************************************************************)
(* The aggregate impact of a set of modified files                         *)
(***************************************************************************)
\* the greatest of the radii of `files` under small < medium < large < critical
greatestRadius(files) ==
    IF files = {} THEN "small"
    ELSE LET f == CHOOSE x \in files :
                     \A y \in files : radiusOrder(analyzeImpact(y).blastRadius)
                                      <= radiusOrder(analyzeImpact(x).blastRadius)
         IN  analyzeImpact(f).blastRadius

RECURSIVE directSum(_)
directSum(files) ==
    IF files = {} THEN 0
    ELSE LET f == CHOOSE x \in files : TRUE
         IN  Len(analyzeImpact(f).dependents.direct) + directSum(files \ {f})

\* C29: the summary of calculateImpact has the greatest of the per-file
\* blast radii and the sum of the per-file direct-dependent counts; for no
\* file it is 'small' with 0 affected files; with one more file the radius
\* is not lower.
C29_AggregateIsMaxAndSum ==
    impactCall.made =>
        LET files == members(impactCall.modifiedFiles)
        IN  /\ impactCall.impact.blast_radius = greatestRadius(files)
            /\ impactCall.impact.affected_files = directSum(files)
            /\ files = {} => /\ impactCall.impact.blast_radius = "small"
                             /\ impactCall.impact.affected_files = 0
            /\ \A k \in 1..Len(ModifiedPool) :
                  radiusOrder(calculateImpact(Append(impactCall.modifiedFiles,
                                                     ModifiedPool[k])).blast_radius)
                  >= radiusOrder(impactCall.impact.blast_radius)

\* d.ts, large with three dependents, listed before b.ts, small with one
C29_Witness ==
    /\ impactCall.made
    /\ impactCall.modifiedFiles = <<ModifiedPool[4], ModifiedPool[2]>>
    /\ impactCall.impact.blast_radius = "large"
    /\ impactCall.impact.affected_files = 4

(***************************************************************************)
(* One initialization of the model at a time                               *)
(***************************************************************************)
\* at most one invocation of _initModel loads at a time, and none once the
\* model is loaded
OneLoadAtATime ==
    /\ Cardinality(loading) <= 1
    /\ scorer.pipeline => loading = {}

\* a call made while an invocation was loading follows that invocation's
\* promise
WaitOnTheLoadUnderWay ==
    \A c \in 1..Len(ensureCalls) :
        \A i \in ensureCalls[c].underWay : ensureCalls[c].follows = i

\* no call that follows a failed initialization is fulfilled
FailureIsSeen ==
    \A c \in 1..Len(ensureCalls) :
        inits[ensureCalls[c].follows].stage = "failed" =>
            ensureCalls[c].status # "fulfilled"

\* a call made when no model is loaded and nothing is loading starts an
\* initialization
RetryStartsAnew ==
    \A c \in 1..Len(ensureCalls) :
        (~ensureCalls[c].loaded /\ ensureCalls[c].underWay = {}) =>
            ensureCalls[c].started

\* C30: whatever the interleaving of the calls of ensureModel, embed and
\* rerank on one SemanticScorer, at most one initialization is under way
\* and none is started once one has succeeded, the calls made meanwhile
\* all wait on its promise; the calls waiting on an initialization that
\* fails see the failure, and a call after the failure starts a new one.
C30_SingleFlightInitialization ==
    /\ OneLoadAtATime
    /\ WaitOnTheLoadUnderWay
    /\ FailureIsSeen
    /\ RetryStartsAnew

\* the other three hold in every interleaving
C30_AllButTheSharedPromise == OneLoadAtATime /\ FailureIsSeen /\ RetryStartsAnew

\* a call fulfilled with no model loaded: embed and rerank go on to call
\* this.pipeline, which is null
FulfilledWithoutModel ==
    \E c \in 1..Len(ensureCalls) :
        ensureCalls[c].status = "fulfilled" /\ ~ensureCalls[c].pipeline

====
